---- MODULE Spec2Model ----
(***************************************************************************)
(* Model of the A.R.C. platform-spike agent core:                          *)
(*   - the memory stores (arc-sherlock-brain database.py and the SDK's     *)
(*     arc_common.models.conversation),                                    *)
(*   - the ephemeral bus client NATSAgentClient,                           *)
(*   - the durable bus client PulsarAgentClient,                           *)
(*   - the reasoning request flow voice plugin -> brain workers -> store.  *)
(* Each component has its own specification (SpecStore, SpecNats, ...)     *)
(* over the shared variables; a component's actions leave the variables    *)
(* of the other components unchanged.                                      *)
(***************************************************************************)
EXTENDS Integers, Sequences, FiniteSets, TLC

(***************************************************************************)
(* State                                                                   *)
(***************************************************************************)
VARIABLES
    brainRows,   \* agents.conversations as written by arc-sherlock-brain
    sdkRows,     \* agents.conversations rows of the SDK Conversation model
    lastQuery    \* the last store call: its arguments and what it returned

VARIABLES
    natsConnected,    \* NATSAgentClient._connected
    natsNc,           \* NATSAgentClient.nc: 0 is None, n > 0 the n-th connection opened
    natsConns,        \* the library's state of every connection opened
    natsBus,          \* what the client handed to nc.publish, in order
    natsPc,           \* where disconnect() is: "idle", "drain" or "close"
    natsEstablished,  \* connect() succeeded and disconnect() was not called since
    natsLast          \* the last step of the client: operation and outcome

VARIABLES
    envOut            \* the last envelope built and, once decoded, what was read

VARIABLES
    pulConnected,     \* PulsarAgentClient._connected
    pulClient,        \* PulsarAgentClient.client: 0 is None, n > 0 the n-th pulsar.Client
    pulClients,       \* the library's state of every pulsar.Client created
    pulProducers,     \* PulsarAgentClient.producers: topic -> producer
    pulProducerOpen,  \* per producer created: is it still open
    pulSent,          \* the messages the producers sent, in order
    pulEstablished,   \* connect() succeeded and disconnect() was not called since
    pulLast           \* the last call on the client: operation and outcome

VARIABLES
    topicLog,         \* the messages of the consumed topic, in produce order
    subAcked,         \* the messages the subscription has acknowledged
    pulConsumers,     \* PulsarAgentClient.consumers: subscription -> consumer
    conPc,            \* where consume() is
    conLog            \* one record per message consumer.receive() returned

VARIABLES
    redeliverMax,     \* REDELIVER_MAX of the process environment
    dlqLog            \* the messages forwarded to a dead-letter topic

VARIABLES
    turns,            \* agents.conversations rows of the SDK model, as turns
    turnPending,      \* per database session: the Conversations added, not committed
    turnLast          \* the last step on the turns: operation and outcome

VARIABLES
    sessHist,         \* per Session row: the values its status column held, in order
    sessLast          \* the last step on a Session: operation and outcome

VARIABLES
    chatNc,           \* SherlockLLM.nc is set (chat() on its own)
    chatPc,           \* where chat() is: "idle" or "waiting" in nc.request
    chatTurns,        \* one record per call of chat(), with its stream
    chatSent          \* the payloads chat() sent on brain.request, in order

VARIABLES
    ttsPc,            \* "none", or "open" once synthesize() returned a stream
    ttsAudio,         \* PiperChunkedStream.audio_bytes
    ttsChunkSize,     \* PiperChunkedStream._chunk_size
    ttsIndex,         \* PiperChunkedStream._index
    ttsChunks,        \* the audio chunks __anext__ returned, in order
    ttsStops          \* how many times __anext__ raised StopAsyncIteration

VARIABLES
    plugNc,           \* SherlockLLM.nc is set
    brReqs,           \* the reasoning requests of the voice session, in order
    brSubs,           \* the brain workers subscribed to brain.request
    brWork,           \* per worker and request: where handle_brain_request is
    brResp,           \* per worker and request: final_response of the graph
    brReplies,        \* the replies the workers sent with msg.respond
    brainBus,         \* every message sent on the bus by plugin and brain
    brNotes           \* per worker and request: which calls of the graph failed

VARIABLES
    nsubOpen,         \* the subscription made by subscribe() exists
    nsubQueue,        \* messages of the subject not yet handed to message_handler
    nsubPc,           \* message_handler: "idle" or awaiting the "callback"
    nsubLog,          \* one entry per message handed to message_handler
    nsubLast          \* the last subscribe() call and its outcome

VARIABLES
    svcDb,            \* arc-sherlock-brain: the global db and its reachability
    svcNats,          \* arc-sherlock-brain: the global nats_handler and its nc
    svcModel,         \* arc-piper-tts: piper_voice is loaded
    svcPulsar,        \* voice agent: the Pulsar broker answers
    svcTel,           \* the state of the telemetry of the services
    svcLast           \* the last HTTP request answered and its response

VARIABLES
    clPc,             \* per room and cleanup task: the await it waits in
    clNc,             \* per room: llm_plugin.nc is not None
    clConn,           \* per room: the state of the plugin's connection
    clAssistant,      \* per room: the VoiceAssistant, "running" or "closed"
    clErr             \* per room and cleanup task: the exception that ended it

VARIABLES
    wsClient,         \* voice agent: the module's global pulsar client
    wsSess,           \* per websocket: "none", "live", "ended" or "failed"
    wsProducer,       \* per websocket: its PulsarProducer's producer
    wsConsumer,       \* per websocket: its PulsarConsumer's consumer
    wsOut,            \* the messages sent to the input topic, by session
    wsLast            \* the last websocket step and its outcome

storeVars == <<brainRows, sdkRows, lastQuery>>

natsVars == <<natsConnected, natsNc, natsConns, natsBus, natsPc,
              natsEstablished, natsLast>>

envVars == <<envOut>>

pulsarVars == <<pulConnected, pulClient, pulClients, pulProducers,
                pulProducerOpen, pulSent, pulEstablished, pulLast>>

consumeVars == <<topicLog, subAcked, pulConsumers, conPc, conLog>>

dlqVars == <<redeliverMax, dlqLog>>

turnVars == <<turns, turnPending, turnLast>>

sessVars == <<sessHist, sessLast>>

chatVars == <<chatNc, chatPc, chatTurns, chatSent>>

ttsVars == <<ttsPc, ttsAudio, ttsChunkSize, ttsIndex, ttsChunks, ttsStops>>

brainVars == <<plugNc, brReqs, brSubs, brWork, brResp, brReplies, brainBus,
               brNotes>>

subVars == <<nsubOpen, nsubQueue, nsubPc, nsubLog, nsubLast>>

svcVars == <<svcDb, svcNats, svcModel, svcPulsar, svcTel, svcLast>>

cleanupVars == <<clPc, clNc, clConn, clAssistant, clErr>>

wsVars == <<wsClient, wsSess, wsProducer, wsConsumer, wsOut, wsLast>>

serviceVars == <<subVars, svcVars, cleanupVars, wsVars>>

coreVars == <<storeVars, natsVars, envVars, pulsarVars, consumeVars, dlqVars,
              turnVars, sessVars, chatVars, ttsVars, brainVars>>

vars == <<storeVars, natsVars, envVars, pulsarVars, consumeVars, dlqVars,
          turnVars, sessVars,
                       chatVars, ttsVars, brainVars,
                       serviceVars>>

\* What the actions of one component leave alone.
StoreOnly == UNCHANGED <<natsVars, envVars, pulsarVars, consumeVars,
                       dlqVars, turnVars, sessVars,
                       chatVars, ttsVars, brainVars,
                       serviceVars>>

NatsOnly == UNCHANGED <<storeVars, envVars, pulsarVars, consumeVars,
                       dlqVars, turnVars, sessVars,
                       chatVars, ttsVars, brainVars,
                       serviceVars>>

EnvOnly == UNCHANGED <<storeVars, natsVars, pulsarVars, consumeVars,
                       dlqVars, turnVars, sessVars,
                       chatVars, ttsVars, brainVars,
                       serviceVars>>

PulsarOnly == UNCHANGED <<storeVars, natsVars, envVars, consumeVars,
                       dlqVars, turnVars, sessVars,
                       chatVars, ttsVars, brainVars,
                       serviceVars>>

\* The reasoning flow writes the brain's table.
BrainOnly == UNCHANGED <<sdkRows, lastQuery, natsVars, envVars, pulsarVars,
                         consumeVars, dlqVars, turnVars, sessVars,
                         chatVars, ttsVars,
                       serviceVars>>

\* The consume loop reads the client's connection and leaves the rest.
ConsumeOnly == UNCHANGED <<storeVars, natsVars, envVars,
                       turnVars, sessVars,
                       chatVars, ttsVars, brainVars,
                       serviceVars>>

\* Saving turns touches only the turns.
TurnOnly == UNCHANGED <<storeVars, natsVars, envVars, pulsarVars,
                       consumeVars, dlqVars, sessVars,
                       chatVars, ttsVars, brainVars,
                       serviceVars>>

\* Writing a Session row touches only the sessions.
SessOnly == UNCHANGED <<storeVars, natsVars, envVars, pulsarVars,
                       consumeVars, dlqVars, turnVars,
                       chatVars, ttsVars, brainVars,
                       serviceVars>>

\* chat() on its own touches only the plugin and its streams.
ChatOnly == UNCHANGED <<storeVars, natsVars, envVars, pulsarVars,
                       consumeVars, dlqVars, turnVars, sessVars, ttsVars,
                       brainVars,
                       serviceVars>>

\* The chunk stream touches only itself.
TtsOnly == UNCHANGED <<storeVars, natsVars, envVars, pulsarVars,
                      consumeVars, dlqVars, turnVars, sessVars, chatVars,
                      brainVars,
                       serviceVars>>

\* Handling the messages of a subscription touches only the subscription.
SubOnly == UNCHANGED <<coreVars, svcVars, cleanupVars, wsVars>>

\* Answering an HTTP request touches only the state of the services.
SvcOnly == UNCHANGED <<coreVars, subVars, cleanupVars, wsVars>>

\* Cleanup touches only the session being cleaned up.
CleanupOnly == UNCHANGED <<coreVars, subVars, svcVars, wsVars>>

\* A websocket session touches only the voice agent's Pulsar objects.
WsOnly == UNCHANGED <<coreVars, subVars, svcVars, cleanupVars>>

(***************************************************************************)
(* Bounds of the model                                                     *)
(***************************************************************************)
MaxRows == 2
MaxK == 2

(***************************************************************************)
(* Values shared by the components                                         *)
(***************************************************************************)
\* Python's None.
None == "<None>"

\* Python truthiness of an optional string: None and "" are falsy.
Falsy(v) == v \in {None, ""}

Users == {"u1", "u2"}

\* Values a caller can pass as user_id.
UserArgs == Users \cup {"", None}

Texts == {"hello", "weather"}

\* SentenceTransformer.encode reduced to one dimension: equal texts have
\* equal embeddings, different texts different ones.
Embed(text) == IF text = "hello" THEN 0 ELSE 2

Embeddings == 0..2

Abs(n) == IF n < 0 THEN -n ELSE n

\* pgvector l2_distance / cosine_distance on the one-dimensional embeddings.
Distance(a, b) == Abs(a - b)

Min(S) == CHOOSE m \in S : \A n \in S : m <= n

RECURSIVE SortIdx(_, _)
\* The indices of S in ascending order of key[i]; equal keys in index order
\* (insertion order).
SortIdx(S, key) ==
    IF S = {} THEN <<>>
    ELSE LET k == Min({key[i] : i \in S})
             i == Min({j \in S : key[j] = k})
         IN <<i>> \o SortIdx(S \ {i}, key)

\* SQL LIMIT n on an ordered result.
Limit(s, n) == SubSeq(s, 1, IF n < Len(s) THEN n ELSE Len(s))

(***************************************************************************)
(* Memory stores                                                           *)
(***************************************************************************)
\* A row of database.Conversation.  req and role are bookkeeping of the
\* model (which reasoning request wrote the row, and whether it holds the
\* user's utterance or the agent's reply); the table has no such columns.
BrainRow(user_id, text, req, role) ==
    [user_id |-> user_id, text |-> text, embedding |-> Embed(text),
     req |-> req, role |-> role]

\* save_conversation: one session, one INSERT, committed on exit.
SaveConversationRows(rows, user_id, text, req, role) ==
    Append(rows, BrainRow(user_id, text, req, role))

\* get_context: WHERE user_id == :user_id ORDER BY distance LIMIT top_k.
\* Comparing the NOT NULL column with None selects nothing.
GetContextRows(rows, user_id, query_text, top_k) ==
    LET match == {i \in 1..Len(rows) : rows[i].user_id = user_id}
        key == [i \in 1..Len(rows) |->
                    Distance(rows[i].embedding, Embed(query_text))]
        ord == SortIdx(match, key)
    IN [n \in 1..Len(Limit(ord, top_k)) |-> rows[ord[n]]]

\* get_recent_conversations: WHERE user_id == :user_id
\* ORDER BY created_at DESC LIMIT limit (created_at grows with the id).
GetRecentRows(rows, user_id, limit) ==
    LET match == {i \in 1..Len(rows) : rows[i].user_id = user_id}
        key == [i \in 1..Len(rows) |-> 0 - i]
        ord == SortIdx(match, key)
    IN [n \in 1..Len(Limit(ord, limit)) |-> rows[ord[n]]]

\* find_similar_conversations: the user filter is applied only
\* "if user_id:", then ORDER BY cosine distance LIMIT limit.
FindSimilarRows(rows, query_embedding, limit, user_id) ==
    LET match == IF Falsy(user_id) THEN 1..Len(rows)
                 ELSE {i \in 1..Len(rows) : rows[i].user_id = user_id}
        key == [i \in 1..Len(rows) |->
                    Distance(rows[i].embedding, query_embedding)]
        ord == SortIdx(match, key)
    IN [n \in 1..Len(Limit(ord, limit)) |-> rows[ord[n]]]

InitStore ==
    /\ brainRows = <<>>
    /\ sdkRows = <<>>
    /\ lastQuery = [op |-> "none", user |-> None, rows |-> <<>>,
                    result |-> "ok"]

\* save_conversation(db, user_id, text) called on its own.  The column is
\* NOT NULL, so a None user_id fails at flush and the session rolls back.
SaveConversation(user_id, text) ==
    /\ Len(brainRows) < MaxRows
    /\ IF user_id = None
       THEN /\ lastQuery' = [op |-> "save_conversation", user |-> user_id,
                             rows |-> <<>>, result |-> "IntegrityError"]
            /\ UNCHANGED brainRows
       ELSE /\ brainRows' = SaveConversationRows(brainRows, user_id, text,
                                                 <<0, 0>>, "user")
            /\ lastQuery' = [op |-> "save_conversation", user |-> user_id,
                             rows |-> <<>>, result |-> "ok"]
    /\ UNCHANGED sdkRows

\* Conversation(user_id=...) of the SDK added to a session and committed.
\* validate_not_empty rejects None, "" and blank user ids.
SdkAddConversation(user_id, embedding) ==
    /\ Len(sdkRows) < MaxRows
    /\ IF Falsy(user_id)
       THEN /\ lastQuery' = [op |-> "Conversation", user |-> user_id,
                             rows |-> <<>>, result |-> "ValueError"]
            /\ UNCHANGED sdkRows
       ELSE /\ sdkRows' = Append(sdkRows, [user_id |-> user_id,
                                           embedding |-> embedding])
            /\ lastQuery' = [op |-> "Conversation", user |-> user_id,
                             rows |-> <<>>, result |-> "ok"]
    /\ UNCHANGED brainRows

\* A negative LIMIT is an error of the database; nothing is returned.
GetContext(user_id, query_text, top_k) ==
    /\ lastQuery' =
         IF top_k < 0
         THEN [op |-> "get_context", user |-> user_id, rows |-> <<>>,
               result |-> "DBError"]
         ELSE [op |-> "get_context", user |-> user_id,
               rows |-> GetContextRows(brainRows, user_id, query_text, top_k),
               result |-> "ok"]
    /\ UNCHANGED <<brainRows, sdkRows>>

GetRecentConversations(user_id, limit) ==
    /\ lastQuery' =
         IF limit < 0
         THEN [op |-> "get_recent_conversations", user |-> user_id,
               rows |-> <<>>, result |-> "DBError"]
         ELSE [op |-> "get_recent_conversations", user |-> user_id,
               rows |-> GetRecentRows(brainRows, user_id, limit),
               result |-> "ok"]
    /\ UNCHANGED <<brainRows, sdkRows>>

FindSimilarConversations(query_embedding, limit, user_id) ==
    /\ lastQuery' =
         IF limit < 0
         THEN [op |-> "find_similar_conversations", user |-> user_id,
               rows |-> <<>>, result |-> "DBError"]
         ELSE [op |-> "find_similar_conversations", user |-> user_id,
               rows |-> FindSimilarRows(sdkRows, query_embedding, limit,
                                        user_id),
               result |-> "ok"]
    /\ UNCHANGED <<brainRows, sdkRows>>

StoreSave ==
    /\ \E u \in UserArgs, t \in Texts : SaveConversation(u, t)
    /\ StoreOnly

StoreAdd ==
    /\ \E u \in UserArgs, e \in Embeddings : SdkAddConversation(u, e)
    /\ StoreOnly

StoreGetContext ==
    /\ \E u \in UserArgs, q \in Texts, k \in -1..MaxK : GetContext(u, q, k)
    /\ StoreOnly

StoreGetRecent ==
    /\ \E u \in UserArgs, k \in -1..MaxK : GetRecentConversations(u, k)
    /\ StoreOnly

StoreFindSimilar ==
    /\ \E u \in UserArgs, q \in Embeddings, k \in -1..MaxK :
           FindSimilarConversations(q, k, u)
    /\ StoreOnly

(***************************************************************************)
(* Turns: the SDK Conversation model saved by concurrent sessions          *)
(***************************************************************************)
MaxTurns == 3

\* Database sessions (one per voice session task).
DbSessions == {"s1", "s2"}

AgentArgs == {"agent_a", ""}

TurnIndexArgs == -1..1

InitTurns ==
    /\ turns = <<>>
    /\ turnPending = [s \in DbSessions |-> <<>>]
    /\ turnLast = [op |-> "init", session |-> None, result |-> "ok"]

\* Values passed as user_input.
UserInputArgs == {"hello", "   "}

\* str.strip(): a string of whitespace only becomes "".
Strip(value) == IF value \in {" ", "   "} THEN "" ELSE value

\* The fields named by @validates on validate_not_empty.
ValidatedKeys == {"user_id", "agent_id"}

\* validate_not_empty: "if not value or not value.strip()" raises ValueError.
ValidateNotEmpty(value) == ~(Falsy(value) \/ Falsy(Strip(value)))

\* Conversation.__table_args__: the constraints the table checks on INSERT.
TableConstraints(rows, row) ==
    row.turn_index >= 0

\* Conversation(user_id=..., agent_id=..., turn_index=...) and
\* db_session.add: the validators run in the constructor.
TurnAdd(s, user_id, agent_id, turn_index, user_input) ==
    /\ turnPending[s] = <<>>
    /\ LET row == [user_id |-> user_id, agent_id |-> agent_id,
                   turn_index |-> turn_index, user_input |-> user_input]
       IN
       IF \A k \in ValidatedKeys : ValidateNotEmpty(row[k])
       THEN /\ turnPending' = [turnPending EXCEPT ![s] = <<row>>]
            /\ turnLast' = [op |-> "add", session |-> s, result |-> "ok"]
       ELSE /\ turnLast' = [op |-> "add", session |-> s,
                            result |-> "ValueError"]
            /\ UNCHANGED turnPending
    /\ UNCHANGED turns

\* db_session.commit(): the INSERT is checked against the constraints of
\* the table; a violation raises IntegrityError and stores nothing.
TurnCommit(s) ==
    /\ turnPending[s] # <<>>
    /\ Len(turns) < MaxTurns
    /\ IF TableConstraints(turns, turnPending[s][1])
       THEN /\ turns' = Append(turns, turnPending[s][1])
            /\ turnLast' = [op |-> "commit", session |-> s, result |-> "ok"]
       ELSE /\ turnLast' = [op |-> "commit", session |-> s,
                            result |-> "IntegrityError"]
            /\ UNCHANGED turns
    /\ turnPending' = [turnPending EXCEPT ![s] = <<>>]

TurnsAdd ==
    /\ \E s \in DbSessions, u \in Users \cup {""}, a \in AgentArgs,
          n \in TurnIndexArgs, t \in UserInputArgs : TurnAdd(s, u, a, n, t)
    /\ TurnOnly

TurnsCommit ==
    /\ \E s \in DbSessions : TurnCommit(s)
    /\ TurnOnly

(***************************************************************************)
(* Session rows of the SDK                                                 *)
(***************************************************************************)
MaxStatusWrites == 2

SessionIds == {"sess-1", "sess-2"}

\* Values a caller assigns to Session.status.
StatusArgs == {"active", "ended", "error", "paused", None}

InitSessions ==
    /\ sessHist = [s \in SessionIds |-> <<>>]
    /\ sessLast = [op |-> "init", session |-> None, value |-> None,
                   result |-> "ok"]

\* validate_status: the value must be one of the allowed statuses; the
\* current value of the column plays no part.
ValidateStatus(old, value) ==
    value \in {"active", "ended", "error"}

\* Session(room_name=..., user_id=...) added and committed without a
\* status: the column default "active" is stored.
SessionCreate(s) ==
    /\ sessHist[s] = <<>>
    /\ sessHist' = [sessHist EXCEPT ![s] = <<"active">>]
    /\ sessLast' = [op |-> "create", session |-> s, value |-> None,
                    result |-> "ok"]

\* session.status = value, committed: the validator runs on assignment and
\* raises ValueError, leaving the column as it was.
SessionSetStatus(s, value) ==
    /\ sessHist[s] # <<>>
    /\ Len(sessHist[s]) <= MaxStatusWrites
    /\ IF ValidateStatus(sessHist[s][Len(sessHist[s])], value)
       THEN /\ sessHist' = [sessHist EXCEPT ![s] = Append(@, value)]
            /\ sessLast' = [op |-> "set_status", session |-> s,
                            value |-> value, result |-> "ok"]
       ELSE /\ sessLast' = [op |-> "set_status", session |-> s,
                            value |-> value, result |-> "ValueError"]
            /\ UNCHANGED sessHist

SessCreate ==
    /\ \E s \in SessionIds : SessionCreate(s)
    /\ SessOnly

SessSetStatus ==
    /\ \E s \in SessionIds, v \in StatusArgs : SessionSetStatus(s, v)
    /\ SessOnly

(***************************************************************************)
(* Subjects, JSON and the message envelope                                 *)
(***************************************************************************)
\* A subject is the sequence of its dot-separated tokens:
\* "agent.voice.track.published" is <<"agent","voice","track","published">>.
\* NATSAgentClient.VALID_SUBJECT_PREFIXES, each without its trailing dot.
VALID_SUBJECT_PREFIXES ==
    { <<"agent", "voice">>, <<"agent", "brain">>, <<"agent", "tts">>,
      <<"agent", "stt">>, <<"system", "health">>, <<"system", "service">> }

\* subject.startswith(prefix + "."): the prefix tokens followed by a dot,
\* that is by at least one more token.
StartsWith(subject, prefix) ==
    /\ Len(subject) > Len(prefix)
    /\ SubSeq(subject, 1, Len(prefix)) = prefix

\* _validate_subject raises ValueError unless this holds.
ValidateSubject(subject) ==
    \E prefix \in VALID_SUBJECT_PREFIXES : StartsWith(subject, prefix)

\* A dict is a function from its keys; {} is the empty function.
EmptyDict == [k \in {} |-> None]

RECURSIVE SetToSeq(_)
SetToSeq(S) ==
    IF S = {} THEN <<>>
    ELSE LET x == CHOOSE y \in S : TRUE IN <<x>> \o SetToSeq(S \ {x})

\* json.dumps(d).encode("utf-8"): the members of the object, one
\* <<key, value>> pair per key.
JsonDumps(d) ==
    LET keys == SetToSeq(DOMAIN d)
    IN [i \in 1..Len(keys) |-> <<keys[i], d[keys[i]]>>]

\* json.loads(bytes.decode("utf-8")): the dict of the members read.
JsonLoads(bytes) ==
    [k \in {bytes[i][1] : i \in 1..Len(bytes)} |->
        LET i == CHOOSE j \in 1..Len(bytes) : bytes[j][1] = k
        IN bytes[i][2]]

\* datetime.utcnow().isoformat() + "Z"
Now == "2026-01-01T00:00:00Z"

\* str(uuid4())
NewUuid == "uuid4"

\* _create_message_envelope of both clients: timestamp, "trace_id or
\* uuid4()", service, event_type only "if event_type", then
\* envelope.update(data), so a key of data replaces the metadata field of
\* the same name.
CreateMessageEnvelope(service_name, data, trace_id, event_type) ==
    LET envelope == [k \in {"timestamp", "trace_id", "service"} |->
                        CASE k = "timestamp" -> Now
                          [] k = "trace_id" ->
                                IF Falsy(trace_id) THEN NewUuid ELSE trace_id
                          [] k = "service" -> service_name]
        typed == IF Falsy(event_type) THEN envelope
                 ELSE ("event_type" :> event_type) @@ envelope
    IN data @@ typed

(***************************************************************************)
(* NATSAgentClient                                                         *)
(***************************************************************************)
MaxConns == 2
MaxMsgs == 2

NatsServiceName == "test-service"

NatsSubjects ==
    { <<"agent", "voice", "session", "started">>,
      <<"system", "health", "heartbeat">>,
      <<"foo", "bar", "baz">>,
      <<"agent", "voice">> }

NatsPayloads == { EmptyDict, ("user_id" :> "u1") }

TraceArgs == {None, "t1"}

InitNats ==
    /\ natsConnected = FALSE
    /\ natsNc = 0
    /\ natsConns = <<>>
    /\ natsBus = <<>>
    /\ natsPc = "idle"
    /\ natsEstablished = FALSE
    /\ natsLast = [op |-> "init", result |-> "ok"]

\* connect(): returns at once when self._connected; otherwise nats.connect
\* opens a connection (or raises) and self.nc, self._connected are set.
NatsConnect ==
    /\ natsPc = "idle"
    /\ IF natsConnected
       THEN /\ natsLast' = [op |-> "connect", result |-> "already"]
            /\ UNCHANGED <<natsConnected, natsNc, natsConns, natsEstablished>>
       ELSE \/ /\ Len(natsConns) < MaxConns
               /\ natsConns' = Append(natsConns, "connected")
               /\ natsNc' = Len(natsConns) + 1
               /\ natsConnected' = TRUE
               /\ natsEstablished' = TRUE
               /\ natsLast' = [op |-> "connect", result |-> "ok"]
            \/ /\ natsLast' = [op |-> "connect", result |-> "ConnectionFailed"]
               /\ UNCHANGED <<natsConnected, natsNc, natsConns,
                              natsEstablished>>
    /\ UNCHANGED <<natsBus, natsPc>>
    /\ NatsOnly

\* disconnect(), up to its first await: nothing to do unless
\* "self.nc and self._connected".
NatsDisconnectBegin ==
    /\ natsPc = "idle"
    /\ natsEstablished' = FALSE
    /\ IF natsNc # 0 /\ natsConnected
       THEN /\ natsPc' = "drain"
            /\ natsLast' = [op |-> "disconnect", result |-> "draining"]
       ELSE /\ natsPc' = "idle"
            /\ natsLast' = [op |-> "disconnect", result |-> "noop"]
    /\ UNCHANGED <<natsConnected, natsNc, natsConns, natsBus>>
    /\ NatsOnly

\* await self.nc.drain(): the library drains and closes the connection; on
\* closing it runs disconnected_cb, which is _disconnected_callback.
NatsDisconnectDrain ==
    /\ natsPc = "drain"
    /\ natsConns' = [natsConns EXCEPT ![natsNc] = "closed"]
    /\ natsConnected' = FALSE
    /\ natsPc' = "close"
    /\ natsLast' = [op |-> "disconnect", result |-> "closing"]
    /\ UNCHANGED <<natsNc, natsBus, natsEstablished>>
    /\ NatsOnly

\* await self.nc.close() on the closed connection, then
\* self._connected = False.
NatsDisconnectClose ==
    /\ natsPc = "close"
    /\ natsConnected' = FALSE
    /\ natsPc' = "idle"
    /\ natsLast' = [op |-> "disconnect", result |-> "ok"]
    /\ UNCHANGED <<natsNc, natsConns, natsBus, natsEstablished>>
    /\ NatsOnly

\* The library loses connection h and starts reconnecting: it calls
\* _disconnected_callback of the client that opened h.
NatsDisconnectedCallback(h) ==
    /\ natsConns[h] = "connected"
    /\ natsConns' = [natsConns EXCEPT ![h] = "reconnecting"]
    /\ natsConnected' = FALSE
    /\ natsLast' = [op |-> "_disconnected_callback", result |-> "ok"]
    /\ UNCHANGED <<natsNc, natsBus, natsPc, natsEstablished>>

\* The library re-established connection h: _reconnected_callback.
NatsReconnectedCallback(h) ==
    /\ natsConns[h] = "reconnecting"
    /\ natsConns' = [natsConns EXCEPT ![h] = "connected"]
    /\ natsConnected' = TRUE
    /\ natsLast' = [op |-> "_reconnected_callback", result |-> "ok"]
    /\ UNCHANGED <<natsNc, natsBus, natsPc, natsEstablished>>

\* A publish that transmits before it checks anything.
PublishSendFirst(subject, data, trace_id, event_type) ==
    /\ Len(natsBus) < MaxMsgs
    /\ natsBus' = Append(natsBus,
                     [subject |-> subject,
                      data |-> JsonDumps(CreateMessageEnvelope(
                                  NatsServiceName, data, trace_id,
                                  event_type))])
    /\ natsLast' = [op |-> "publish",
                    result |-> IF ~natsConnected THEN "NotConnected"
                               ELSE IF ~ValidateSubject(subject)
                                    THEN "InvalidSubject" ELSE "ok"]
    /\ UNCHANGED <<natsConnected, natsNc, natsConns, natsPc, natsEstablished>>

\* publish(): ConnectionError unless self._connected, ValueError from
\* _validate_subject, then the envelope is serialised and handed to
\* nc.publish, which raises on a closed connection and buffers while the
\* connection is reconnecting.
Publish(subject, data, trace_id, event_type) ==
    /\ Len(natsBus) < MaxMsgs
    /\ IF ~natsConnected
       THEN /\ natsLast' = [op |-> "publish", result |-> "NotConnected"]
            /\ UNCHANGED natsBus
       ELSE IF ~ValidateSubject(subject)
       THEN /\ natsLast' = [op |-> "publish", result |-> "InvalidSubject"]
            /\ UNCHANGED natsBus
       ELSE IF natsConns[natsNc] = "closed"
       THEN /\ natsLast' = [op |-> "publish", result |-> "ConnectionClosed"]
            /\ UNCHANGED natsBus
       ELSE /\ natsBus' = Append(natsBus,
                            [subject |-> subject,
                             data |-> JsonDumps(CreateMessageEnvelope(
                                         NatsServiceName, data, trace_id,
                                         event_type))])
            /\ natsLast' = [op |-> "publish", result |-> "ok"]
    /\ UNCHANGED <<natsConnected, natsNc, natsConns, natsPc, natsEstablished>>

NatsPublish ==
    /\ \E s \in NatsSubjects, d \in NatsPayloads, t \in TraceArgs :
           Publish(s, d, t, None)
    /\ NatsOnly

\* publish_session_started
NatsPublishSessionStarted ==
    /\ \E t \in TraceArgs :
           Publish(<<"agent", "voice", "session", "started">>,
                   ("event" :> "session_started") @@ ("user_id" :> "u1"),
                   t, "session_started")
    /\ NatsOnly

\* publish_track_published
NatsPublishTrackPublished ==
    /\ \E t \in TraceArgs :
           Publish(<<"agent", "voice", "track", "published">>,
                   ("event" :> "track_published") @@ ("track_kind" :> "audio"),
                   t, "track_published")
    /\ NatsOnly

\* publish_brain_request
NatsPublishBrainRequest ==
    /\ \E t \in TraceArgs :
           Publish(<<"agent", "brain", "request">>,
                   ("request_id" :> "r1") @@ ("user_id" :> "u1"),
                   t, "brain_request")
    /\ NatsOnly

\* publish_heartbeat
NatsPublishHeartbeat ==
    /\ Publish(<<"system", "health", "heartbeat">>,
               ("service" :> NatsServiceName) @@ ("status" :> "healthy"),
               None, "heartbeat")
    /\ NatsOnly

NatsLibDisconnected ==
    /\ \E h \in 1..Len(natsConns) : NatsDisconnectedCallback(h)
    /\ NatsOnly

NatsLibReconnected ==
    /\ \E h \in 1..Len(natsConns) : NatsReconnectedCallback(h)
    /\ NatsOnly

(***************************************************************************)
(* Envelope round trip                                                     *)
(***************************************************************************)
PulsarServiceName == "test-service"

\* PulsarAgentClient._create_message_envelope: the same construction.
PulsarCreateMessageEnvelope(service_name, data, trace_id, event_type) ==
    LET envelope == [k \in {"timestamp", "trace_id", "service"} |->
                        CASE k = "timestamp" -> Now
                          [] k = "trace_id" ->
                                IF Falsy(trace_id) THEN NewUuid ELSE trace_id
                          [] k = "service" -> service_name]
        typed == IF Falsy(event_type) THEN envelope
                 ELSE ("event_type" :> event_type) @@ envelope
    IN data @@ typed

\* Payloads, among them payloads whose keys are names of metadata fields.
EnvPayloads ==
    { EmptyDict,
      ("user_id" :> "user-123") @@ ("message" :> "Hello"),
      ("trace_id" :> "payload-trace"),
      ("trace_id" :> ""),
      ("service" :> "other-service"),
      ("event_type" :> "payload-event"),
      ("timestamp" :> "yesterday") }

EnvTraceArgs == {None, "", "trace-123"}

EnvEventArgs == {None, "", "test_event"}

InitEnv ==
    envOut = [client |-> "none", service |-> "", data |-> EmptyDict,
              trace_id |-> None, event_type |-> None, bytes |-> <<>>,
              parsed |-> EmptyDict, received |-> FALSE]

\* NATSAgentClient.publish up to the bytes it hands to the connection.
EnvWrapNats ==
    /\ \E d \in EnvPayloads, t \in EnvTraceArgs, e \in EnvEventArgs :
          envOut' = [client |-> "nats", service |-> NatsServiceName,
                     data |-> d, trace_id |-> t, event_type |-> e,
                     bytes |-> JsonDumps(CreateMessageEnvelope(
                                  NatsServiceName, d, t, e)),
                     parsed |-> EmptyDict, received |-> FALSE]
    /\ EnvOnly

\* PulsarAgentClient.produce up to the bytes it hands to the producer.
EnvWrapPulsar ==
    /\ \E d \in EnvPayloads, t \in EnvTraceArgs, e \in EnvEventArgs :
          envOut' = [client |-> "pulsar", service |-> PulsarServiceName,
                     data |-> d, trace_id |-> t, event_type |-> e,
                     bytes |-> JsonDumps(PulsarCreateMessageEnvelope(
                                  PulsarServiceName, d, t, e)),
                     parsed |-> EmptyDict, received |-> FALSE]
    /\ EnvOnly

\* The receiving side (message_handler of subscribe, the consume loop):
\* data = json.loads(msg.data.decode("utf-8")), handed to the callback.
EnvParse ==
    /\ envOut.client # "none"
    /\ ~envOut.received
    /\ envOut' = [envOut EXCEPT !.parsed = JsonLoads(envOut.bytes),
                                !.received = TRUE]
    /\ EnvOnly

(***************************************************************************)
(* PulsarAgentClient: connection and producers                             *)
(***************************************************************************)
MaxClients == 2
MaxSent == 2

ConversationsTopic == "persistent://arc/events/conversations"

AnalyticsTopic == "persistent://arc/analytics/latency-metrics"

AuditTopic == "persistent://arc/audit/logs"

TestTopic == "persistent://arc/events/test"

\* Topics passed to produce() directly.
ProduceTopics == {TestTopic, ConversationsTopic}

InitPulsar ==
    /\ pulConnected = FALSE
    /\ pulClient = 0
    /\ pulClients = <<>>
    /\ pulProducers = EmptyDict
    /\ pulProducerOpen = <<>>
    /\ pulSent = <<>>
    /\ pulEstablished = FALSE
    /\ pulLast = [op |-> "init", result |-> "ok"]

\* connect(): returns at once when self._connected; otherwise creates a
\* pulsar.Client (or raises) and sets self._connected.
PulsarConnect ==
    /\ conPc \in {"idle", "stopped"}
    /\ IF pulConnected
       THEN /\ pulLast' = [op |-> "connect", result |-> "already"]
            /\ UNCHANGED <<pulConnected, pulClient, pulClients,
                           pulEstablished>>
       ELSE \/ /\ Len(pulClients) < MaxClients
               /\ pulClients' = Append(pulClients, "open")
               /\ pulClient' = Len(pulClients) + 1
               /\ pulConnected' = TRUE
               /\ pulEstablished' = TRUE
               /\ pulLast' = [op |-> "connect", result |-> "ok"]
            \/ /\ pulLast' = [op |-> "connect", result |-> "ConnectionFailed"]
               /\ UNCHANGED <<pulConnected, pulClient, pulClients,
                              pulEstablished>>
    /\ UNCHANGED <<pulProducers, pulProducerOpen, pulSent>>

\* disconnect(): nothing when not connected; otherwise closes every cached
\* producer and consumer (errors logged), closes the client and clears
\* self._connected.  self.producers and self.consumers keep their entries.
PulsarDisconnectFields ==
    /\ pulEstablished' = FALSE
    /\ IF ~pulConnected
       THEN /\ pulLast' = [op |-> "disconnect", result |-> "noop"]
            /\ UNCHANGED <<pulConnected, pulClients, pulProducerOpen>>
       ELSE /\ pulProducerOpen' = [i \in 1..Len(pulProducerOpen) |->
                                     IF \E t \in DOMAIN pulProducers :
                                            pulProducers[t] = i
                                     THEN FALSE ELSE pulProducerOpen[i]]
            /\ pulClients' = [pulClients EXCEPT ![pulClient] = "closed"]
            /\ pulConnected' = FALSE
            /\ pulLast' = [op |-> "disconnect", result |-> "ok"]
    /\ UNCHANGED <<pulClient, pulProducers, pulSent>>

PulsarDisconnect ==
    /\ conPc \in {"idle", "stopped"}
    /\ PulsarDisconnectFields
    /\ UNCHANGED <<topicLog, subAcked, pulConsumers, conPc, conLog>>
    /\ UNCHANGED dlqVars
    /\ ConsumeOnly

\* produce(): _get_producer returns the cached producer of the topic, or,
\* when there is none, raises ConnectionError unless self._connected and
\* else creates and caches one; the envelope is serialised and sent, with
\* partition_key when message_key is given.  Sending through a closed
\* producer raises the library's AlreadyClosed error and sends nothing.
Produce(topic, data, message_key, trace_id, event_type) ==
    /\ Len(pulSent) < MaxSent
    /\ IF topic \notin DOMAIN pulProducers /\ ~pulConnected
       THEN /\ pulLast' = [op |-> "produce", result |-> "NotConnected"]
            /\ UNCHANGED <<pulProducers, pulProducerOpen, pulSent>>
       ELSE LET cached == topic \in DOMAIN pulProducers
                producer == IF cached THEN pulProducers[topic]
                            ELSE Len(pulProducerOpen) + 1
                open == IF cached THEN pulProducerOpen[producer] ELSE TRUE
            IN /\ pulProducers' = IF cached THEN pulProducers
                                  ELSE (topic :> producer) @@ pulProducers
               /\ pulProducerOpen' = IF cached THEN pulProducerOpen
                                     ELSE Append(pulProducerOpen, TRUE)
               /\ IF open
                  THEN /\ pulSent' = Append(pulSent,
                             [topic |-> topic,
                              partition_key |->
                                  IF Falsy(message_key) THEN None
                                  ELSE message_key,
                              producer |-> producer,
                              data |-> JsonDumps(PulsarCreateMessageEnvelope(
                                          PulsarServiceName, data, trace_id,
                                          event_type))])
                       /\ pulLast' = [op |-> "produce", result |-> "ok"]
                  ELSE /\ pulLast' = [op |-> "produce",
                                      result |-> "AlreadyClosed"]
                       /\ UNCHANGED pulSent
    /\ UNCHANGED <<pulConnected, pulClient, pulClients, pulEstablished>>

PulsarProduce ==
    /\ \E t \in ProduceTopics :
          Produce(t, ("test" :> "data"), None, None, None)
    /\ PulsarOnly

\* produce_conversation_event
PulsarProduceConversationEvent ==
    /\ \E cid \in {"conv-1", "conv-2"} :
          Produce(ConversationsTopic, ("turn_index" :> "1"), cid, None,
                  "turn_completed")
    /\ PulsarOnly

\* produce_analytics_event
PulsarProduceAnalyticsEvent ==
    /\ Produce(AnalyticsTopic, ("latency_ms" :> "650"), None, None,
               "analytics_latency-metrics")
    /\ PulsarOnly

\* produce_audit_log
PulsarProduceAuditLog ==
    /\ Produce(AuditTopic,
               ("user_id" :> "u1") @@ ("action" :> "create")
                  @@ ("resource" :> "conversation"),
               "u1", None, "audit_log")
    /\ PulsarOnly

PulsarClientConnect ==
    /\ PulsarConnect
    /\ PulsarOnly

PulsarClientDisconnect ==
    /\ PulsarDisconnectFields
    /\ PulsarOnly

(***************************************************************************)
(* PulsarAgentClient.consume                                               *)
(***************************************************************************)
MaxTopicMsgs == 2
MaxDeliveries == 3

\* max_redeliver_count of the dead letter policy consume() subscribes with.
MaxRedeliverCount == 3

\* Values REDELIVER_MAX is set to in the environment of the process.
RedeliverMaxValues == {1, 2}

\* Partition keys of the conversation events.
MessageKeys == {"conv-1", "conv-2"}

\* The topic the consumer subscribes to (consume_conversation_events).
ConsumedTopic == ConversationsTopic

InitConsume ==
    /\ topicLog = <<>>
    /\ subAcked = {}
    /\ pulConsumers = EmptyDict
    /\ conPc = "idle"
    /\ conLog = <<>>
    /\ redeliverMax = 3
    /\ dlqLog = <<>>

\* The environment of the process is set before the client is used.
SetRedeliverMax ==
    /\ conPc = "idle"
    /\ pulConsumers = EmptyDict
    /\ redeliverMax = 3
    /\ \E n \in RedeliverMaxValues : redeliverMax' = n
    /\ UNCHANGED dlqLog
    /\ UNCHANGED consumeVars
    /\ UNCHANGED pulsarVars
    /\ ConsumeOnly

\* A producer wrote a conversation event to the topic with a partition key;
\* its payload is valid JSON or not.
TopicAppend ==
    /\ Len(topicLog) < MaxTopicMsgs
    /\ \E valid \in BOOLEAN, k \in MessageKeys :
          topicLog' = Append(topicLog, [valid |-> valid, key |-> k])
    /\ UNCHANGED <<subAcked, pulConsumers, conPc, conLog>>
    /\ UNCHANGED dlqVars
    /\ UNCHANGED pulsarVars
    /\ ConsumeOnly

\* connect() called by the thread that will consume.
ConsumeClientConnect ==
    /\ PulsarConnect
    /\ UNCHANGED consumeVars
    /\ UNCHANGED dlqVars
    /\ ConsumeOnly

\* The dead letter policy consume() passes to client.subscribe.
DeadLetterPolicy(topic) ==
    [max_redeliver_count |-> MaxRedeliverCount,
     dead_letter_topic |-> <<topic, "-dlq">>]

\* consume() up to its loop: ConnectionError unless self._connected, then
\* client.subscribe creates the consumer, cached under the subscription.
ConsumeStart ==
    /\ conPc \in {"idle", "stopped"}
    /\ IF ~pulConnected
       THEN /\ pulLast' = [op |-> "consume", result |-> "NotConnected"]
            /\ UNCHANGED <<pulConsumers, conPc>>
       ELSE /\ pulConsumers' = ("brain-consumer" :> 1) @@ pulConsumers
            /\ conPc' = "receive"
            /\ pulLast' = [op |-> "consume", result |-> "consuming"]
    /\ UNCHANGED <<pulConnected, pulClient, pulClients, pulProducers,
                   pulProducerOpen, pulSent, pulEstablished>>
    /\ UNCHANGED <<topicLog, subAcked, conLog>>
    /\ UNCHANGED dlqVars
    /\ ConsumeOnly

\* How many times consumer.receive() returned message m.
Deliveries(m) == Cardinality({i \in 1..Len(conLog) : conLog[i].msg = m})

\* The messages forwarded to the dead-letter topic.
DeadLettered == {dlqLog[i].msg : i \in 1..Len(dlqLog)}

\* What the subscription can hand over next: the oldest message it never
\* delivered, or a negatively acknowledged message (redelivery).
Deliverable ==
    LET fresh == {m \in 1..Len(topicLog) : Deliveries(m) = 0}
    IN (IF fresh = {} THEN {} ELSE {Min(fresh)})
       \cup {m \in 1..Len(topicLog) :
               /\ Deliveries(m) > 0
               /\ m \notin subAcked
               /\ m \notin DeadLettered}

\* msg = consumer.receive().
ConsumeReceive ==
    /\ conPc = "receive"
    /\ Len(conLog) < MaxDeliveries
    /\ \E m \in Deliverable :
          conLog' = Append(conLog, [msg |-> m,
                                    key |-> topicLog[m].key,
                                    valid |-> topicLog[m].valid,
                                    outcome |-> "pending",
                                    acks |-> 0, nacks |-> 0])
    /\ conPc' = "handle"
    /\ UNCHANGED <<topicLog, subAcked, pulConsumers>>
    /\ UNCHANGED dlqVars
    /\ UNCHANGED pulsarVars
    /\ ConsumeOnly

\* consumer.receive() raises: the loop logs the error and breaks.
ConsumeReceiveError ==
    /\ conPc = "receive"
    /\ conPc' = "stopped"
    /\ UNCHANGED <<topicLog, subAcked, pulConsumers, conLog>>
    /\ UNCHANGED dlqVars
    /\ UNCHANGED pulsarVars
    /\ ConsumeOnly

\* Outcomes of callback(data, msg): the value it returns, or an exception.
CallbackOutcomes == {"True", "None", "False", "raise"}

\* json.loads of the payload, then the callback.
ConsumeHandle ==
    /\ conPc = "handle"
    /\ \E o \in CallbackOutcomes :
          conLog' = [conLog EXCEPT ![Len(conLog)].outcome =
                        IF conLog[Len(conLog)].valid THEN o
                        ELSE "JSONDecodeError"]
    /\ conPc' = "settle"
    /\ UNCHANGED <<topicLog, subAcked, pulConsumers>>
    /\ UNCHANGED dlqVars
    /\ UNCHANGED pulsarVars
    /\ ConsumeOnly

\* A loop that tests "not should_ack" instead of "should_ack is False".
SettleKindFalsy(outcome) ==
    IF outcome \in {"JSONDecodeError", "raise"} THEN "nack"
    ELSE IF outcome \in {"False", "None"} THEN "nack" ELSE "ack"

\* negative_acknowledge when "should_ack is False" and in both except
\* branches, acknowledge otherwise.
SettleKind(outcome) ==
    IF outcome \in {"JSONDecodeError", "raise"} THEN "nack"
    ELSE IF outcome = "False" THEN "nack" ELSE "ack"

\* acknowledge or negative_acknowledge.  A negatively acknowledged message
\* that was already redelivered max_redeliver_count times goes to the dead
\* letter topic of the policy instead of being redelivered.
ConsumeSettle ==
    /\ conPc = "settle"
    /\ LET d == conLog[Len(conLog)]
           policy == DeadLetterPolicy(ConsumedTopic)
       IN IF SettleKind(d.outcome) = "ack"
          THEN /\ conLog' = [conLog EXCEPT ![Len(conLog)].acks = d.acks + 1]
               /\ subAcked' = subAcked \cup {d.msg}
               /\ UNCHANGED dlqLog
          ELSE /\ conLog' = [conLog EXCEPT ![Len(conLog)].nacks = d.nacks + 1]
               /\ UNCHANGED subAcked
               /\ dlqLog' = IF Deliveries(d.msg) - 1
                                  >= policy.max_redeliver_count
                            THEN Append(dlqLog,
                                    [topic |-> policy.dead_letter_topic,
                                     msg |-> d.msg])
                            ELSE dlqLog
    /\ conPc' = "receive"
    /\ UNCHANGED <<topicLog, pulConsumers, redeliverMax>>
    /\ UNCHANGED pulsarVars
    /\ ConsumeOnly

(***************************************************************************)
(* Reasoning request flow: SherlockLLM -> brain.request -> brain workers   *)
(***************************************************************************)
MaxReqs == 1
MaxWorkers == 2

Workers == 1..MaxWorkers

Reqs == 1..MaxReqs

\* The subject both sides use.
BrainRequestSubject == <<"brain", "request">>

\* The reply subject of a request is an inbox of the requester.
InboxSubject(r) == <<"_INBOX", r>>

\* The fixed reply of generate_response_node and of SherlockLLM.chat when
\* the LLM or the brain fails.
Fallback ==
    "I apologize, but I'm having trouble processing your request right now."

LlmAnswer == "It's 14:05 in Tokyo."

\* What the voice pipeline can hand to chat(): an utterance or "".
Utterances == {"hello", ""}

PluginUserId == "u1"

InitBrain ==
    /\ plugNc = FALSE
    /\ brReqs = <<>>
    /\ brSubs = {}
    /\ brWork = [w \in Workers |-> [r \in Reqs |-> "none"]]
    /\ brResp = [w \in Workers |-> [r \in Reqs |-> None]]
    /\ brReplies = {}
    /\ brainBus = {}
    /\ brNotes = [w \in Workers |-> [r \in Reqs |->
                     [ctx |-> "none", llm |-> "none", persist |-> "none"]]]

\* The rows request r left in the table through worker w.
RowsOf(r, w, role) ==
    {i \in 1..Len(brainRows) :
        brainRows[i].req = <<r, w>> /\ brainRows[i].role = role}

\* The worker is inside handle_brain_request for some request.
Busy(w) ==
    \E r \in Reqs : brWork[w][r] \notin {"none", "queued", "done", "cancelled"}

\* NATSHandler.connect and subscribe: nc.subscribe("brain.request", cb)
\* without a queue group.
WorkerSubscribe(w) ==
    /\ w \notin brSubs
    /\ \A r \in Reqs : brWork[w][r] \in {"none"}
    /\ brSubs' = brSubs \cup {w}
    /\ UNCHANGED <<plugNc, brReqs, brWork, brResp, brReplies, brainBus,
                   brainRows>>

\* chat() -> _call_brain(text): connects when self.nc is None, then
\* nc.request("brain.request", {"user_id", "text"}, timeout).  The server
\* hands the message to every subscription of the subject; with none the
\* request fails at once (no responders) and chat() answers the apology.
PluginRequest(text) ==
    /\ Len(brReqs) < MaxReqs
    /\ \A r \in 1..Len(brReqs) : brReqs[r].state # "waiting"
    /\ LET r == Len(brReqs) + 1
       IN \/ /\ ~plugNc
             /\ brReqs' = Append(brReqs, [user_id |-> PluginUserId,
                                          text |-> text, state |-> "failed",
                                          spoken |-> Fallback,
                                          form |-> "object"])
             /\ UNCHANGED <<plugNc, brWork, brainBus>>
          \/ /\ plugNc' = TRUE
             /\ brainBus' = brainBus \cup
                   {[subject |-> BrainRequestSubject,
                     data |-> JsonDumps(("user_id" :> PluginUserId)
                                           @@ ("text" :> text))]}
             /\ brReqs' = Append(brReqs,
                   [user_id |-> PluginUserId, text |-> text,
                    state |-> IF brSubs = {} THEN "failed" ELSE "waiting",
                    spoken |-> IF brSubs = {} THEN Fallback ELSE None,
                    form |-> "object"])
             /\ brWork' = [w \in Workers |->
                             IF w \in brSubs
                             THEN [brWork[w] EXCEPT ![r] = "queued"]
                             ELSE brWork[w]]
    /\ UNCHANGED <<brSubs, brResp, brReplies, brainRows>>

\* The first reply to reach the requester ends nc.request: a reply with an
\* "error" field raises, and chat() answers the apology; else its text is
\* the answer.
PluginReply(r) ==
    /\ r \in 1..Len(brReqs)
    /\ brReqs[r].state = "waiting"
    /\ \E m \in brReplies :
          /\ m.req = r
          /\ LET data == JsonLoads(m.data)
             IN brReqs' = [brReqs EXCEPT ![r] =
                   IF "error" \in DOMAIN data
                   THEN [@ EXCEPT !.state = "failed", !.spoken = Fallback]
                   ELSE [@ EXCEPT !.state = "answered",
                                  !.spoken = data["text"]]]
    /\ UNCHANGED <<plugNc, brSubs, brWork, brResp, brReplies, brainBus,
                   brainRows>>

\* asyncio.TimeoutError after self.timeout seconds: chat() answers the
\* apology; a reply that comes later is dropped.
PluginTimeout(r) ==
    /\ r \in 1..Len(brReqs)
    /\ brReqs[r].state = "waiting"
    /\ brReqs' = [brReqs EXCEPT ![r] =
                     [@ EXCEPT !.state = "failed", !.spoken = Fallback]]
    /\ UNCHANGED <<plugNc, brSubs, brWork, brResp, brReplies, brainBus,
                   brainRows>>

\* Payload forms another bus client can send on brain.request: a JSON
\* object, a JSON value that is not an object, bytes that are not JSON.
WireForms == {"object", "array", "garbage"}

\* Fields of such an object: present, empty, or missing (payload.get gives
\* None).
WireUserIds == {PluginUserId, "u2", None}

WireTexts == {"hello", "bye", "", None}

\* Any bus client requests on brain.request with a payload of its choice;
\* the server hands the message to every subscription of the subject.
ForeignRequest(form, user_id, text) ==
    /\ Len(brReqs) < MaxReqs
    /\ brSubs # {}
    /\ LET r == Len(brReqs) + 1
           object == form = "object"
       IN /\ brReqs' = Append(brReqs,
                [user_id |-> IF object THEN user_id ELSE None,
                 text |-> IF object THEN text ELSE None,
                 state |-> "foreign", spoken |-> None, form |-> form])
          /\ brWork' = [w \in Workers |->
                          IF w \in brSubs
                          THEN [brWork[w] EXCEPT ![r] = "queued"]
                          ELSE brWork[w]]
    /\ UNCHANGED <<plugNc, brSubs, brResp, brReplies, brainBus, brainRows>>

\* json.loads(msg.data.decode()) raises JSONDecodeError, or payload.get
\* raises AttributeError on a value that is no dict.
PayloadRaises(req) == req.form # "object"

\* handle_brain_request up to invoke_reasoning_graph: json.loads,
\* payload.get, then ValueError when user_id or text is missing or empty.
WorkerBegin(w, r) ==
    /\ brWork[w][r] = "queued"
    /\ ~Busy(w)
    /\ \A q \in 1..(r - 1) : brWork[w][q] # "queued"
    /\ brWork' = [brWork EXCEPT ![w][r] =
                     IF \/ PayloadRaises(brReqs[r])
                        \/ Falsy(brReqs[r].user_id) \/ Falsy(brReqs[r].text)
                     THEN "fail" ELSE "retrieve"]
    /\ UNCHANGED <<plugNc, brReqs, brSubs, brResp, brReplies, brainBus,
                   brainRows>>

\* retrieve_context_node: get_context; an exception of the database leaves
\* the graph and invoke_reasoning_graph re-raises it.
WorkerRetrieve(w, r) ==
    /\ brWork[w][r] = "retrieve"
    /\ \E ok \in BOOLEAN :
          /\ brWork' = [brWork EXCEPT ![w][r] =
                           IF ok THEN "generate" ELSE "fail"]
          /\ brNotes' = [brNotes EXCEPT ![w][r].ctx =
                           IF ok THEN @ ELSE "failed"]
    /\ UNCHANGED <<plugNc, brReqs, brSubs, brResp, brReplies, brainBus,
                   brainRows>>

\* T_reason passes while generate_response_node awaits
\* llm_client.ainvoke: the await has no deadline, the node keeps waiting.
WorkerLlmOverdue(w, r) ==
    /\ brWork[w][r] = "generate"
    /\ brNotes[w][r].llm = "none"
    /\ brNotes' = [brNotes EXCEPT ![w][r].llm = "overdue"]
    /\ UNCHANGED <<plugNc, brReqs, brSubs, brWork, brResp, brReplies,
                   brainBus, brainRows>>

\* response_text of generate_response_node: the LLM's answer, or the fixed
\* reply when llm_client.ainvoke raised.
ResponseText(raised) == IF raised THEN Fallback ELSE LlmAnswer

\* generate_response_node: llm_client.ainvoke returns or raises, in time or
\* after T_reason.
WorkerGenerate(w, r) ==
    /\ brWork[w][r] = "generate"
    /\ \E raised \in BOOLEAN :
          /\ brResp' = [brResp EXCEPT ![w][r] = ResponseText(raised)]
          /\ brNotes' = [brNotes EXCEPT ![w][r].llm =
                           IF @ = "overdue" THEN "overdue"
                           ELSE IF raised THEN "error" ELSE @]
    /\ brWork' = [brWork EXCEPT ![w][r] = "save_user"]
    /\ UNCHANGED <<plugNc, brReqs, brSubs, brReplies, brainBus, brainRows>>

\* await save_conversation(db, user_id, message): committed, or an
\* exception that invoke_reasoning_graph re-raises.
WorkerSaveUser(w, r) ==
    /\ brWork[w][r] = "save_user"
    /\ \/ /\ brainRows' = SaveConversationRows(brainRows, brReqs[r].user_id,
                                               brReqs[r].text, <<r, w>>,
                                               "user")
          /\ brWork' = [brWork EXCEPT ![w][r] = "save_agent"]
          /\ UNCHANGED brNotes
       \/ /\ brWork' = [brWork EXCEPT ![w][r] = "fail"]
          /\ brNotes' = [brNotes EXCEPT ![w][r].persist = "failed"]
          /\ UNCHANGED brainRows
    /\ UNCHANGED <<plugNc, brReqs, brSubs, brResp, brReplies, brainBus>>

\* await save_conversation(db, user_id, response): a second session and a
\* second commit.
WorkerSaveAgent(w, r) ==
    /\ brWork[w][r] = "save_agent"
    /\ \/ /\ brainRows' = SaveConversationRows(brainRows, brReqs[r].user_id,
                                               brResp[w][r], <<r, w>>,
                                               "agent")
          /\ brWork' = [brWork EXCEPT ![w][r] = "respond"]
          /\ UNCHANGED brNotes
       \/ /\ brWork' = [brWork EXCEPT ![w][r] = "fail"]
          /\ brNotes' = [brNotes EXCEPT ![w][r].persist = "failed"]
          /\ UNCHANGED brainRows
    /\ UNCHANGED <<plugNc, brReqs, brSubs, brResp, brReplies, brainBus>>

\* msg.respond({"user_id", "text", "latency_ms"})
WorkerRespond(w, r) ==
    /\ brWork[w][r] = "respond"
    /\ LET data == JsonDumps(("user_id" :> brReqs[r].user_id)
                                @@ ("text" :> brResp[w][r])
                                @@ ("latency_ms" :> "650"))
       IN /\ brReplies' = brReplies \cup
                {[req |-> r, worker |-> w, data |-> data]}
          /\ brainBus' = brainBus \cup
                {[subject |-> InboxSubject(r), data |-> data]}
    /\ brWork' = [brWork EXCEPT ![w][r] = "done"]
    /\ UNCHANGED <<plugNc, brReqs, brSubs, brResp, brainRows>>

\* An except clause that logs and sends nothing.
WorkerRespondErrorSilent(w, r) ==
    /\ brWork[w][r] = "fail"
    /\ brWork' = [brWork EXCEPT ![w][r] = "done"]
    /\ UNCHANGED <<plugNc, brReqs, brSubs, brResp, brainRows, brReplies,
                   brainBus>>

\* except Exception: msg.respond({"error", "latency_ms"})
WorkerRespondError(w, r) ==
    /\ brWork[w][r] = "fail"
    /\ LET data == JsonDumps(("error" :> "error") @@ ("latency_ms" :> "650"))
       IN /\ brReplies' = brReplies \cup
                {[req |-> r, worker |-> w, data |-> data]}
          /\ brainBus' = brainBus \cup
                {[subject |-> InboxSubject(r), data |-> data]}
    /\ brWork' = [brWork EXCEPT ![w][r] = "done"]
    /\ UNCHANGED <<plugNc, brReqs, brSubs, brResp, brainRows>>

\* The worker shuts down (NATSHandler.close, run_forever cancelled) while
\* the handler waits at one of its awaits: CancelledError is no Exception,
\* so neither except clause runs; requests still queued are not handled.
WorkerCancel(w) ==
    /\ Busy(w)
    /\ brWork' = [brWork EXCEPT ![w] =
                     [r \in Reqs |->
                        IF brWork[w][r] \in {"none", "done"}
                        THEN brWork[w][r] ELSE "cancelled"]]
    /\ brSubs' = brSubs \ {w}
    /\ UNCHANGED <<plugNc, brReqs, brResp, brReplies, brainBus, brainRows>>

BrainSubscribe ==
    /\ \E w \in Workers : WorkerSubscribe(w)
    /\ UNCHANGED brNotes
    /\ BrainOnly

BrainRequest ==
    /\ \E t \in Utterances : PluginRequest(t)
    /\ UNCHANGED brNotes
    /\ BrainOnly

BrainReply ==
    /\ \E r \in Reqs : PluginReply(r)
    /\ UNCHANGED brNotes
    /\ BrainOnly

BrainTimeout ==
    /\ \E r \in Reqs : PluginTimeout(r)
    /\ UNCHANGED brNotes
    /\ BrainOnly

BrainBegin ==
    /\ \E w \in Workers, r \in Reqs : WorkerBegin(w, r)
    /\ UNCHANGED brNotes
    /\ BrainOnly

BrainRetrieve ==
    (\E w \in Workers, r \in Reqs : WorkerRetrieve(w, r)) /\ BrainOnly

BrainLlmOverdue ==
    (\E w \in Workers, r \in Reqs : WorkerLlmOverdue(w, r)) /\ BrainOnly

BrainGenerate ==
    (\E w \in Workers, r \in Reqs : WorkerGenerate(w, r)) /\ BrainOnly

BrainSaveUser ==
    (\E w \in Workers, r \in Reqs : WorkerSaveUser(w, r)) /\ BrainOnly

BrainSaveAgent ==
    (\E w \in Workers, r \in Reqs : WorkerSaveAgent(w, r)) /\ BrainOnly

BrainRespond ==
    /\ \E w \in Workers, r \in Reqs : WorkerRespond(w, r)
    /\ UNCHANGED brNotes
    /\ BrainOnly

BrainRespondError ==
    /\ \E w \in Workers, r \in Reqs : WorkerRespondError(w, r)
    /\ UNCHANGED brNotes
    /\ BrainOnly

BrainCancel ==
    /\ \E w \in Workers : WorkerCancel(w)
    /\ UNCHANGED brNotes
    /\ BrainOnly

\* One handler on its own: the subscription of a single worker and the
\* requests of any bus client.
HandlerWorker == 1

HandlerSubscribe ==
    /\ WorkerSubscribe(HandlerWorker)
    /\ UNCHANGED brNotes
    /\ BrainOnly

HandlerRequest ==
    /\ \E f \in WireForms, u \in WireUserIds, t \in WireTexts :
          ForeignRequest(f, u, t)
    /\ UNCHANGED brNotes
    /\ BrainOnly

HandlerBegin ==
    /\ \E r \in Reqs : WorkerBegin(HandlerWorker, r)
    /\ UNCHANGED brNotes
    /\ BrainOnly

HandlerRetrieve ==
    (\E r \in Reqs : WorkerRetrieve(HandlerWorker, r)) /\ BrainOnly

HandlerLlmOverdue ==
    (\E r \in Reqs : WorkerLlmOverdue(HandlerWorker, r)) /\ BrainOnly

HandlerGenerate ==
    (\E r \in Reqs : WorkerGenerate(HandlerWorker, r)) /\ BrainOnly

HandlerSaveUser ==
    (\E r \in Reqs : WorkerSaveUser(HandlerWorker, r)) /\ BrainOnly

HandlerSaveAgent ==
    (\E r \in Reqs : WorkerSaveAgent(HandlerWorker, r)) /\ BrainOnly

HandlerRespond ==
    /\ \E r \in Reqs : WorkerRespond(HandlerWorker, r)
    /\ UNCHANGED brNotes
    /\ BrainOnly

HandlerRespondError ==
    /\ \E r \in Reqs : WorkerRespondError(HandlerWorker, r)
    /\ UNCHANGED brNotes
    /\ BrainOnly

(***************************************************************************)
(* SherlockLLM.chat and SherlockLLMStream                                  *)
(***************************************************************************)
MaxChatTurns == 2
MaxNextCalls == 3

\* How nc.request("brain.request", ...) can end: a reply message of the
\* brain (its text, or an error payload), asyncio.TimeoutError, or an error
\* of the connection.
RequestOutcomes ==
    { [kind |-> "text",
       data |-> JsonDumps(("user_id" :> PluginUserId) @@ ("text" :> LlmAnswer)
                             @@ ("latency_ms" :> "650"))],
      [kind |-> "error",
       data |-> JsonDumps(("error" :> "error") @@ ("latency_ms" :> "650"))],
      [kind |-> "timeout", data |-> <<>>],
      [kind |-> "connection", data |-> <<>>] }

InitChat ==
    /\ chatNc = FALSE
    /\ chatPc = "idle"
    /\ chatTurns = <<>>
    /\ chatSent = <<>>

\* _call_brain that returns response_data.get("text", "") without looking
\* for an "error" field.
CallBrainNoErrorCheck(outcome) ==
    IF outcome.kind \in {"timeout", "connection"}
    THEN [raised |-> TRUE, text |-> None]
    ELSE LET data == JsonLoads(outcome.data)
         IN [raised |-> FALSE,
             text |-> IF "text" \in DOMAIN data THEN data["text"] ELSE ""]

\* _call_brain from the end of nc.request: the timeout and connection
\* errors raise; a reply is parsed, raises when it has an "error" field and
\* else gives response_data.get("text", "").
CallBrain(outcome) ==
    IF outcome.kind \in {"timeout", "connection"}
    THEN [raised |-> TRUE, text |-> None]
    ELSE LET data == JsonLoads(outcome.data)
         IN IF "error" \in DOMAIN data
            THEN [raised |-> TRUE, text |-> None]
            ELSE [raised |-> FALSE,
                  text |-> IF "text" \in DOMAIN data THEN data["text"]
                           ELSE ""]

\* chat(): "except Exception" turns every failure of _call_brain into the
\* fixed apology; chat() itself returns SherlockLLMStream(response_text).
ChatResponse(result) == IF result.raised THEN Fallback ELSE result.text

\* A new SherlockLLMStream: no _yielded attribute, nothing yielded.
NewStream(text, outcome, sent, response) ==
    [text |-> text, outcome |-> outcome, sent |-> sent,
     response |-> response, yielded |-> FALSE, chunks |-> <<>>,
     stops |-> 0]

\* chat(chat_ctx) up to the end of the request: the latest message is
\* extracted (an empty context gives ""), _call_brain connects when self.nc
\* is None and sends {"user_id", "text"} on brain.request.  A failed
\* connect raises inside the try block, so chat() returns the apology.
ChatBegin(text) ==
    /\ chatPc = "idle"
    /\ Len(chatTurns) < MaxChatTurns
    /\ \/ /\ ~chatNc
          /\ chatTurns' = Append(chatTurns,
                NewStream(text, "connect_failed", FALSE,
                          ChatResponse([raised |-> TRUE, text |-> None])))
          /\ UNCHANGED <<chatNc, chatPc, chatSent>>
       \/ /\ chatNc' = TRUE
          /\ chatSent' = Append(chatSent,
                JsonDumps(("user_id" :> PluginUserId) @@ ("text" :> text)))
          /\ chatTurns' = Append(chatTurns,
                NewStream(text, "pending", TRUE, None))
          /\ chatPc' = "waiting"

\* nc.request ends and chat() returns the stream.
ChatEnd(outcome) ==
    /\ chatPc = "waiting"
    /\ chatTurns' = [chatTurns EXCEPT ![Len(chatTurns)] =
          [@ EXCEPT !.outcome = outcome.kind,
                    !.response = ChatResponse(CallBrain(outcome))]]
    /\ chatPc' = "idle"
    /\ UNCHANGED <<chatNc, chatSent>>

\* SherlockLLMStream.__anext__: the first call sets _yielded and returns a
\* chunk with response_text, every later call raises StopAsyncIteration.
StreamNext(i) ==
    /\ i \in 1..Len(chatTurns)
    /\ chatTurns[i].response # None
    /\ Len(chatTurns[i].chunks) + chatTurns[i].stops < MaxNextCalls
    /\ chatTurns' = [chatTurns EXCEPT ![i] =
          IF ~@.yielded
          THEN [@ EXCEPT !.yielded = TRUE,
                         !.chunks = Append(@, chatTurns[i].response)]
          ELSE [@ EXCEPT !.stops = @ + 1]]
    /\ UNCHANGED <<chatNc, chatPc, chatSent>>

ChatCall ==
    /\ \E t \in Utterances : ChatBegin(t)
    /\ ChatOnly

ChatReturn ==
    /\ \E o \in RequestOutcomes : ChatEnd(o)
    /\ ChatOnly

ChatStreamNext ==
    /\ \E i \in 1..MaxChatTurns : StreamNext(i)
    /\ ChatOnly

(***************************************************************************)
(* PiperChunkedStream                                                      *)
(***************************************************************************)
MaxAudio == 4
MaxStops == 2

\* Sample rates the plugin is built with; _chunk_size is sample_rate * 2.
SampleRates == {1, 2}

\* The audio _synthesize_audio can return: byte strings of up to MaxAudio
\* bytes.
AudioBytes == UNION {[1..n -> {0, 1}] : n \in 0..MaxAudio}

InitTts ==
    /\ ttsPc = "none"
    /\ ttsAudio = <<>>
    /\ ttsChunkSize = 0
    /\ ttsIndex = 0
    /\ ttsChunks = <<>>
    /\ ttsStops = 0

\* synthesize(text): PiperChunkedStream(audio_bytes, sample_rate, text).
Synthesize(audio_bytes, sample_rate) ==
    /\ ttsPc = "none"
    /\ ttsPc' = "open"
    /\ ttsAudio' = audio_bytes
    /\ ttsChunkSize' = sample_rate * 2
    /\ ttsIndex' = 0
    /\ ttsChunks' = <<>>
    /\ ttsStops' = 0

\* A test "self._index > len(self.audio_bytes)".
StreamExhaustedStrict(index, length) == index > length

\* if self._index >= len(self.audio_bytes): raise StopAsyncIteration
StreamExhausted(index, length) == index >= length

\* audio_bytes[start:end] of Python, on a sequence indexed from 1.
Slice(bytes, start, end) == SubSeq(bytes, start + 1, end)

\* PiperChunkedStream.__anext__
ChunkNext ==
    /\ ttsPc = "open"
    /\ IF StreamExhausted(ttsIndex, Len(ttsAudio))
       THEN /\ ttsStops < MaxStops
            /\ ttsStops' = ttsStops + 1
            /\ UNCHANGED <<ttsIndex, ttsChunks>>
       ELSE LET start == ttsIndex
                end == IF start + ttsChunkSize < Len(ttsAudio)
                       THEN start + ttsChunkSize ELSE Len(ttsAudio)
            IN /\ Len(ttsChunks) <= MaxAudio
               /\ ttsChunks' = Append(ttsChunks, Slice(ttsAudio, start, end))
               /\ ttsIndex' = end
               /\ UNCHANGED ttsStops
    /\ UNCHANGED <<ttsPc, ttsAudio, ttsChunkSize>>

TtsSynthesize ==
    /\ \E a \in AudioBytes, r \in SampleRates : Synthesize(a, r)
    /\ TtsOnly

TtsNext ==
    /\ ChunkNext
    /\ TtsOnly

(***************************************************************************)
(* NATSAgentClient.subscribe and its message_handler                       *)
(***************************************************************************)
MaxSubMsgs == 3

\* What a publisher can put on the subject: a JSON object, a JSON value
\* that is not an object, text that is not JSON, bytes that are not UTF-8.
SubWireMsgs ==
    { [form |-> "object", body |-> JsonDumps(("user_id" :> "u1"))],
      [form |-> "object", body |-> JsonDumps(EmptyDict)],
      [form |-> "array", body |-> <<>>],
      [form |-> "garbage", body |-> <<>>],
      [form |-> "not-utf8", body |-> <<>>] }

\* How the user callback ends.
CallbackResults == {"returns", "raises"}

InitSub ==
    /\ nsubOpen = FALSE
    /\ nsubQueue = <<>>
    /\ nsubPc = "idle"
    /\ nsubLog = <<>>
    /\ nsubLast = [op |-> "init", result |-> "ok"]

\* subscribe(): ConnectionError unless self._connected; nc.subscribe with
\* cb=message_handler, whose failure is logged and re-raised.
Subscribe ==
    /\ ~nsubOpen
    /\ IF ~natsConnected
       THEN /\ nsubLast' = [op |-> "subscribe", result |-> "NotConnected"]
            /\ UNCHANGED nsubOpen
       ELSE \/ /\ nsubOpen' = TRUE
               /\ nsubLast' = [op |-> "subscribe", result |-> "ok"]
            \/ /\ nsubLast' = [op |-> "subscribe", result |-> "SubscribeFailed"]
               /\ UNCHANGED nsubOpen
    /\ UNCHANGED <<nsubQueue, nsubPc, nsubLog>>

\* The server hands a message of the subject to the subscription.
SubArrive(m) ==
    /\ nsubOpen
    /\ Len(nsubLog) + Len(nsubQueue) < MaxSubMsgs
    /\ nsubQueue' = Append(nsubQueue, m)
    /\ UNCHANGED <<nsubOpen, nsubPc, nsubLog, nsubLast>>

\* json.loads(msg.data.decode("utf-8")) followed by data.get("trace_id",
\* "unknown"): what is raised before the callback is reached, if anything.
ParseError(m) ==
    CASE m.form = "not-utf8" -> "UnicodeDecodeError"
      [] m.form = "garbage" -> "JSONDecodeError"
      [] m.form = "array" -> "AttributeError"
      [] OTHER -> None

\* A handler that catches the JSON error only.
CaughtJsonOnly(exc) == exc = "JSONDecodeError"

\* The except clauses of message_handler: json.JSONDecodeError, then
\* Exception, which every error raised here derives from.
Caught(exc) ==
    \/ exc = "JSONDecodeError"
    \/ exc \in {"UnicodeDecodeError", "AttributeError", "CallbackError"}

\* The end of message_handler for an exception raised in its try block:
\* logged and swallowed when an except clause matches, raised to the
\* library otherwise.
HandlerEnd(entry, exc) ==
    IF Caught(exc)
    THEN [entry EXCEPT !.outcome = "dropped", !.logged = TRUE, !.error = exc]
    ELSE [entry EXCEPT !.outcome = "propagated", !.error = exc]

\* message_handler(msg) up to "await callback(data)": the library runs the
\* handler of the oldest pending message once the previous one has ended.
MessageHandlerBegin ==
    /\ nsubPc = "idle"
    /\ nsubQueue # <<>>
    /\ LET m == Head(nsubQueue)
           exc == ParseError(m)
           entry == [msg |-> m, calls |-> 0, data |-> EmptyDict,
                     outcome |-> "running", logged |-> FALSE,
                     error |-> None]
       IN IF exc # None
          THEN /\ nsubLog' = Append(nsubLog, HandlerEnd(entry, exc))
               /\ nsubPc' = "idle"
          ELSE /\ nsubLog' = Append(nsubLog,
                                [entry EXCEPT !.calls = 1,
                                              !.data = JsonLoads(m.body)])
               /\ nsubPc' = "callback"
    /\ nsubQueue' = Tail(nsubQueue)
    /\ UNCHANGED <<nsubOpen, nsubLast>>

\* "await callback(data)" ends: the callback returned or raised.
MessageHandlerEnd(result) ==
    /\ nsubPc = "callback"
    /\ LET n == Len(nsubLog)
       IN nsubLog' = [nsubLog EXCEPT ![n] =
                         IF result = "raises"
                         THEN HandlerEnd(nsubLog[n], "CallbackError")
                         ELSE [nsubLog[n] EXCEPT !.outcome = "done"]]
    /\ nsubPc' = "idle"
    /\ UNCHANGED <<nsubOpen, nsubQueue, nsubLast>>

SubSubscribe ==
    /\ Subscribe
    /\ SubOnly

SubMessage ==
    /\ \E m \in SubWireMsgs : SubArrive(m)
    /\ SubOnly

SubHandlerBegin ==
    /\ MessageHandlerBegin
    /\ SubOnly

SubHandlerEnd ==
    /\ \E r \in CallbackResults : MessageHandlerEnd(r)
    /\ SubOnly

(***************************************************************************)
(* HTTP endpoints of the services: GET /health, POST /chat, POST /tts      *)
(***************************************************************************)
\* The module globals of arc-sherlock-brain: db ("none" is None, else
\* whether select(1) succeeds) and nats_handler ("none" is None, "no-nc" a
\* handler whose nc is None, else nc.is_connected).
DbStates == {"none", "up", "down"}

NatsStates == {"none", "no-nc", "up", "down"}

\* Telemetry of a service: working, never initialised, or with span
\* creation or metric recording raising.
TelStates == {"ok", "not-initialised", "span-fails", "metric-fails"}

\* How the work behind an endpoint ends (reasoning, synthesis).
WorkResults == {"ok", "raises"}

NoResponse ==
    [endpoint |-> "none", service |-> "none", code |-> 0, status |-> None,
     reported |-> EmptyDict, body |-> "none", ready |-> FALSE,
     work |-> "ok", tel |-> "ok"]

InitSvc ==
    /\ svcDb = "none"
    /\ svcNats = "none"
    /\ svcModel = FALSE
    /\ svcPulsar = FALSE
    /\ svcTel = "ok"
    /\ svcLast = NoResponse

\* check_database_health(db) if db else False
DbHealthy(db) == db = "up"

\* nats_handler.nc.is_connected if nats_handler and nats_handler.nc else False
NatsHealthy(nats) == nats = "up"

\* arc-sherlock-brain GET /health
BrainHealth(db, nats) ==
    LET db_healthy == DbHealthy(db)
        nats_healthy == NatsHealthy(nats)
    IN [NoResponse EXCEPT
          !.endpoint = "health", !.service = "arc-sherlock-brain",
          !.code = 200,
          !.status = IF db_healthy /\ nats_healthy THEN "healthy"
                     ELSE "degraded",
          !.reported = ("database" :> db_healthy) @@ ("nats" :> nats_healthy),
          !.body = "health"]

\* arc-piper-tts GET /health
PiperHealth(model) ==
    [NoResponse EXCEPT
       !.endpoint = "health", !.service = "arc-piper-tts", !.code = 200,
       !.status = IF model THEN "healthy" ELSE "degraded",
       !.reported = ("model_loaded" :> model),
       !.body = "health"]

\* voice agent GET /health: a temporary pulsar.Client asks the broker for the
\* partitions of a topic; any exception becomes HTTPException(503).
VoiceHealth(pulsar) ==
    IF pulsar
    THEN [NoResponse EXCEPT
            !.endpoint = "health", !.service = "voice-agent", !.code = 200,
            !.status = "ok",
            !.reported = ("pulsar_connection" :> TRUE),
            !.body = "health"]
    ELSE [NoResponse EXCEPT
            !.endpoint = "health", !.service = "voice-agent", !.code = 503,
            !.status = "error",
            !.reported = ("pulsar_connection" :> FALSE),
            !.body = "error"]

\* BrainMetrics.record_request / record_latency / record_error and
\* OTELInstrumentation.record_histogram / increment_counter raise.
MetricRaises(tel) == tel = "metric-fails"

\* get_otel() raises RuntimeError when _global_otel is None, and
\* trace_span raises RuntimeError when self.tracer is None.
NotInitialised(tel) == tel = "not-initialised"

\* tracer.start_as_current_span raises.
SpanRaises(tel) == tel = "span-fails"

\* arc-sherlock-brain POST /chat: 503 unless db and graph; inside the try
\* record_request, invoke_reasoning_graph, record_latency; any exception
\* reaches "except Exception", where record_error runs before
\* HTTPException(500) is raised (an exception of record_error itself leaves
\* the handler and is answered 500 as well).
ChatEndpoint(tel, ready, reasoning) ==
    LET answer == [NoResponse EXCEPT
                     !.endpoint = "chat", !.service = "arc-sherlock-brain",
                     !.ready = ready, !.work = reasoning, !.tel = tel]
    IN IF ~ready
       THEN [answer EXCEPT !.code = 503, !.body = "error"]
       ELSE IF MetricRaises(tel)
       THEN [answer EXCEPT !.code = 500, !.body = "error"]
       ELSE IF reasoning = "raises"
       THEN [answer EXCEPT !.code = 500, !.body = "error"]
       ELSE [answer EXCEPT !.code = 200, !.body = "reply"]

\* arc-piper-tts POST /tts: 503 unless piper_voice; get_otel() and the outer
\* trace_span run outside the try, so their exceptions leave the handler
\* (500); synthesis, record_histogram and increment_counter run inside it,
\* and any exception there becomes HTTPException(500).
TtsEndpoint(tel, model, synthesis) ==
    LET answer == [NoResponse EXCEPT
                     !.endpoint = "tts", !.service = "arc-piper-tts",
                     !.ready = model, !.work = synthesis, !.tel = tel]
    IN IF ~model
       THEN [answer EXCEPT !.code = 503, !.body = "error"]
       ELSE IF NotInitialised(tel) \/ SpanRaises(tel)
       THEN [answer EXCEPT !.code = 500, !.body = "error"]
       ELSE IF synthesis = "raises"
       THEN [answer EXCEPT !.code = 500, !.body = "error"]
       ELSE IF MetricRaises(tel)
       THEN [answer EXCEPT !.code = 500, !.body = "error"]
       ELSE [answer EXCEPT !.code = 200, !.body = "audio"]

\* Startup, shutdown and outages: a component changes state.
SvcEnvironment ==
    /\ \/ \E v \in DbStates : svcDb' = v /\ v # svcDb
                               /\ UNCHANGED <<svcNats, svcModel, svcPulsar, svcTel>>
       \/ \E v \in NatsStates : svcNats' = v /\ v # svcNats
                               /\ UNCHANGED <<svcDb, svcModel, svcPulsar, svcTel>>
       \/ svcModel' = ~svcModel /\ UNCHANGED <<svcDb, svcNats, svcPulsar, svcTel>>
       \/ svcPulsar' = ~svcPulsar /\ UNCHANGED <<svcDb, svcNats, svcModel, svcTel>>
       \/ \E v \in TelStates : svcTel' = v /\ v # svcTel
                               /\ UNCHANGED <<svcDb, svcNats, svcModel, svcPulsar>>
    /\ UNCHANGED svcLast
    /\ SvcOnly

SvcHealthBrain ==
    /\ svcLast' = BrainHealth(svcDb, svcNats)
    /\ UNCHANGED <<svcDb, svcNats, svcModel, svcPulsar, svcTel>>
    /\ SvcOnly

SvcHealthPiper ==
    /\ svcLast' = PiperHealth(svcModel)
    /\ UNCHANGED <<svcDb, svcNats, svcModel, svcPulsar, svcTel>>
    /\ SvcOnly

SvcHealthVoice ==
    /\ svcLast' = VoiceHealth(svcPulsar)
    /\ UNCHANGED <<svcDb, svcNats, svcModel, svcPulsar, svcTel>>
    /\ SvcOnly

SvcChat ==
    /\ \E r \in WorkResults :
          svcLast' = ChatEndpoint(svcTel, svcDb # "none", r)
    /\ UNCHANGED <<svcDb, svcNats, svcModel, svcPulsar, svcTel>>
    /\ SvcOnly

SvcTts ==
    /\ \E r \in WorkResults :
          svcLast' = TtsEndpoint(svcTel, svcModel, r)
    /\ UNCHANGED <<svcDb, svcNats, svcModel, svcPulsar, svcTel>>
    /\ SvcOnly

(***************************************************************************)
(* Session cleanup of the voice agent: entrypoint.cleanup and              *)
(* SherlockLLM.disconnect                                                  *)
(***************************************************************************)
\* Rooms with a running agent session.
Rooms == {"room-1", "room-2"}

\* What starts cleanup(): the participant_disconnected event (a task made
\* with asyncio.create_task) and the shutdown callback of the job.
CleanupTasks == {"participant_disconnected", "shutdown"}

InitCleanup ==
    /\ clPc = [s \in Rooms |-> [t \in CleanupTasks |-> "idle"]]
    /\ clNc = [s \in Rooms |-> TRUE]
    /\ clConn = [s \in Rooms |-> "open"]
    /\ clAssistant = [s \in Rooms |-> "running"]
    /\ clErr = [s \in Rooms |-> [t \in CleanupTasks |-> None]]

\* cleanup() starts and waits in "await assistant.aclose()".
CleanupStart(s, t) ==
    /\ clPc[s][t] = "idle"
    /\ clPc' = [clPc EXCEPT ![s][t] = "aclose"]
    /\ UNCHANGED <<clNc, clConn, clAssistant, clErr>>

\* aclose() returned; disconnect() tests "if self.nc" and calls
\* self.nc.drain(), which raises on a closed connection and else waits
\* until the connection is drained.
CleanupDisconnect(s, t) ==
    /\ clPc[s][t] = "aclose"
    /\ clAssistant' = [clAssistant EXCEPT ![s] = "closed"]
    /\ IF ~clNc[s]
       THEN /\ clPc' = [clPc EXCEPT ![s][t] = "done"]
            /\ UNCHANGED <<clConn, clErr>>
       ELSE IF clConn[s] = "closed"
       THEN /\ clPc' = [clPc EXCEPT ![s][t] = "failed"]
            /\ clErr' = [clErr EXCEPT ![s][t] = "ConnectionClosedError"]
            /\ UNCHANGED clConn
       ELSE /\ clPc' = [clPc EXCEPT ![s][t] = "drain"]
            /\ clConn' = [clConn EXCEPT ![s] = "draining"]
            /\ UNCHANGED clErr
    /\ UNCHANGED clNc

\* drain() returned, the connection is closed; "await self.nc.close()"
\* reads self.nc again: AttributeError when it is None by now.
CleanupClose(s, t) ==
    /\ clPc[s][t] = "drain"
    /\ clConn' = [clConn EXCEPT ![s] = "closed"]
    /\ IF ~clNc[s]
       THEN /\ clPc' = [clPc EXCEPT ![s][t] = "failed"]
            /\ clErr' = [clErr EXCEPT ![s][t] = "AttributeError"]
       ELSE /\ clPc' = [clPc EXCEPT ![s][t] = "close"]
            /\ UNCHANGED clErr
    /\ UNCHANGED <<clNc, clAssistant>>

\* close() returned: self.nc = None.
CleanupRelease(s, t) ==
    /\ clPc[s][t] = "close"
    /\ clNc' = [clNc EXCEPT ![s] = FALSE]
    /\ clPc' = [clPc EXCEPT ![s][t] = "done"]
    /\ UNCHANGED <<clConn, clAssistant, clErr>>

ClStart ==
    /\ \E s \in Rooms, t \in CleanupTasks : CleanupStart(s, t)
    /\ CleanupOnly

ClDisconnect ==
    /\ \E s \in Rooms, t \in CleanupTasks : CleanupDisconnect(s, t)
    /\ CleanupOnly

ClClose ==
    /\ \E s \in Rooms, t \in CleanupTasks : CleanupClose(s, t)
    /\ CleanupOnly

ClRelease ==
    /\ \E s \in Rooms, t \in CleanupTasks : CleanupRelease(s, t)
    /\ CleanupOnly

(***************************************************************************)
(* Voice agent: websocket sessions over the shared Pulsar client           *)
(***************************************************************************)
MaxWsMsgs == 2

\* Websocket connections to /api/v1/ws/voice.
WsSessions == {"ws-1", "ws-2", "ws-3"}

InitWs ==
    /\ wsClient = "open"
    /\ wsSess = [s \in WsSessions |-> "none"]
    /\ wsProducer = [s \in WsSessions |-> "none"]
    /\ wsConsumer = [s \in WsSessions |-> "none"]
    /\ wsOut = <<>>
    /\ wsLast = [op |-> "init", session |-> None, result |-> "ok"]

\* PulsarProducer.__init__: ConnectionError when the global client is None,
\* else client.create_producer, which raises on a closed client.
ProducerInit(s) ==
    IF wsClient = "open" THEN "open" ELSE "none"

\* PulsarConsumer.__init__: client.subscribe(OUTPUT_TOPIC,
\* "voice-agent-subscription"); it raises on a closed client, and the broker
\* may refuse a second consumer on the subscription.
ConsumerInit(s, refused) ==
    IF wsClient = "open" /\ ~refused THEN "open" ELSE "none"

\* websocket_voice_stream up to "await transport.run()": the producer is
\* injected by Depends(get_producer), the consumer made after accept().
WebsocketOpen(s, refused) ==
    /\ wsSess[s] = "none"
    /\ LET producer == ProducerInit(s)
           consumer == IF producer = "open" THEN ConsumerInit(s, refused)
                       ELSE "none"
       IN /\ wsProducer' = [wsProducer EXCEPT ![s] = producer]
          /\ wsConsumer' = [wsConsumer EXCEPT ![s] = consumer]
          /\ wsSess' = [wsSess EXCEPT ![s] =
                           IF consumer = "open" THEN "live" ELSE "failed"]
          /\ wsLast' = [op |-> "open", session |-> s,
                        result |-> IF consumer = "open" THEN "ok" ELSE "error"]
    /\ UNCHANGED <<wsClient, wsOut>>

\* handle_pipecat_frames: producer.send_message -> send_async; a producer
\* of a closed client sends nothing.
SendMessage(s) ==
    /\ wsSess[s] = "live"
    /\ Len(wsOut) < MaxWsMsgs
    /\ IF wsProducer[s] = "open"
       THEN /\ wsOut' = Append(wsOut, s)
            /\ wsLast' = [op |-> "send", session |-> s, result |-> "ok"]
       ELSE /\ wsLast' = [op |-> "send", session |-> s, result |-> "error"]
            /\ UNCHANGED wsOut
    /\ UNCHANGED <<wsClient, wsSess, wsProducer, wsConsumer>>

\* stream_responses: self._consumer.receive() of a response; on a closed
\* consumer it raises, the loop prints the error and sleeps.
StreamResponse(s) ==
    /\ wsSess[s] = "live"
    /\ wsLast' = [op |-> "receive", session |-> s,
                  result |-> IF wsConsumer[s] = "open" THEN "ok" ELSE "error"]
    /\ UNCHANGED <<wsClient, wsSess, wsProducer, wsConsumer, wsOut>>

\* PulsarConsumer.close(): self._consumer.close(), then client.close() on
\* the module's client, which closes every producer and consumer made
\* from it.
ConsumerClose(s) ==
    /\ wsClient' = "closed"
    /\ wsConsumer' = [x \in WsSessions |->
                         IF wsConsumer[x] = "open" THEN "closed"
                         ELSE wsConsumer[x]]
    /\ wsProducer' = [x \in WsSessions |->
                         IF wsProducer[x] = "open" THEN "closed"
                         ELSE wsProducer[x]]

\* transport.run() ends: the streaming task is cancelled and its finally
\* block calls consumer.close().
WebsocketClose(s) ==
    /\ wsSess[s] = "live"
    /\ ConsumerClose(s)
    /\ wsSess' = [wsSess EXCEPT ![s] = "ended"]
    /\ wsLast' = [op |-> "close", session |-> s, result |-> "ok"]
    /\ UNCHANGED wsOut

WsOpen ==
    /\ \E s \in WsSessions, refused \in BOOLEAN :
          /\ refused => \E x \in WsSessions : wsConsumer[x] = "open"
          /\ WebsocketOpen(s, refused)
    /\ WsOnly

WsSend ==
    /\ \E s \in WsSessions : SendMessage(s)
    /\ WsOnly

WsReceive ==
    /\ \E s \in WsSessions : StreamResponse(s)
    /\ WsOnly

WsClose ==
    /\ \E s \in WsSessions : WebsocketClose(s)
    /\ WsOnly

(***************************************************************************)
(* Specifications                                                          *)
(***************************************************************************)
NextStore ==
    \/ StoreSave
    \/ StoreAdd
    \/ StoreGetContext
    \/ StoreGetRecent
    \/ StoreFindSimilar

NextNats ==
    \/ NatsConnect
    \/ NatsDisconnectBegin
    \/ NatsDisconnectDrain
    \/ NatsDisconnectClose
    \/ NatsLibDisconnected
    \/ NatsLibReconnected
    \/ NatsPublish
    \/ NatsPublishSessionStarted
    \/ NatsPublishTrackPublished
    \/ NatsPublishBrainRequest
    \/ NatsPublishHeartbeat

InitService == InitSub /\ InitSvc /\ InitCleanup /\ InitWs

Init == InitStore /\ InitNats /\ InitEnv /\ InitPulsar /\ InitConsume
        /\ InitTurns /\ InitSessions /\ InitChat /\ InitTts
        /\ InitBrain /\ InitService

SpecStore == Init /\ [][NextStore]_vars

SpecNats == Init /\ [][NextNats]_vars

NextEnv ==
    \/ EnvWrapNats
    \/ EnvWrapPulsar
    \/ EnvParse

SpecEnv == Init /\ [][NextEnv]_vars

NextPulsar ==
    \/ PulsarClientConnect
    \/ PulsarClientDisconnect
    \/ PulsarProduce
    \/ PulsarProduceConversationEvent
    \/ PulsarProduceAnalyticsEvent
    \/ PulsarProduceAuditLog

SpecPulsar == Init /\ [][NextPulsar]_vars

NextTurns ==
    \/ TurnsAdd
    \/ TurnsCommit

SpecTurns == Init /\ [][NextTurns]_vars

NextSessions ==
    \/ SessCreate
    \/ SessSetStatus

SpecSessions == Init /\ [][NextSessions]_vars

NextChat ==
    \/ ChatCall
    \/ ChatReturn
    \/ ChatStreamNext

SpecChat == Init /\ [][NextChat]_vars

NextTts ==
    \/ TtsSynthesize
    \/ TtsNext

SpecTts == Init /\ [][NextTts]_vars

NextSub ==
    \/ NatsConnect
    \/ SubSubscribe
    \/ SubMessage
    \/ SubHandlerBegin
    \/ SubHandlerEnd

SpecSub == Init /\ [][NextSub]_vars

NextSvc ==
    \/ SvcEnvironment
    \/ SvcHealthBrain
    \/ SvcHealthPiper
    \/ SvcHealthVoice
    \/ SvcChat
    \/ SvcTts

SpecSvc == Init /\ [][NextSvc]_vars

NextHandler ==
    \/ HandlerSubscribe
    \/ HandlerRequest
    \/ HandlerBegin
    \/ HandlerRetrieve
    \/ HandlerLlmOverdue
    \/ HandlerGenerate
    \/ HandlerSaveUser
    \/ HandlerSaveAgent
    \/ HandlerRespond
    \/ HandlerRespondError

SpecHandler == Init /\ [][NextHandler]_vars

NextCleanup ==
    \/ ClStart
    \/ ClDisconnect
    \/ ClClose
    \/ ClRelease

SpecCleanup == Init /\ [][NextCleanup]_vars

NextWs ==
    \/ WsOpen
    \/ WsSend
    \/ WsReceive
    \/ WsClose

SpecWs == Init /\ [][NextWs]_vars

NextConsume ==
    \/ SetRedeliverMax
    \/ TopicAppend
    \/ ConsumeClientConnect
    \/ PulsarDisconnect
    \/ ConsumeStart
    \/ ConsumeReceive
    \/ ConsumeReceiveError
    \/ ConsumeHandle
    \/ ConsumeSettle

SpecConsume == Init /\ [][NextConsume]_vars

NextBrain ==
    \/ BrainSubscribe
    \/ BrainRequest
    \/ BrainReply
    \/ BrainTimeout
    \/ BrainBegin
    \/ BrainRetrieve
    \/ BrainLlmOverdue
    \/ BrainGenerate
    \/ BrainSaveUser
    \/ BrainSaveAgent
    \/ BrainRespond
    \/ BrainRespondError
    \/ BrainCancel

SpecBrain == Init /\ [][NextBrain]_vars

(***************************************************************************)
(* Claims                                                                  *)
(***************************************************************************)
\* C1: no retrieval operation returns a turn of a user other than the one
\* it was asked for: every row returned by get_context,
\* get_recent_conversations and find_similar_conversations has user_id
\* equal to the requested user, whatever user_id (None and "" included),
\* query and limit were passed.
C1_Isolation ==
    \A n \in 1..Len(lastQuery.rows) :
        lastQuery.rows[n].user_id = lastQuery.user

\* C2: conversation persistence is exactly-once: for every reasoning
\* request issued by the voice session, for any number of subscribed
\* workers and any interleaving of requests, replies and timeouts, no more
\* than one user-utterance record and one agent-reply record of it are
\* stored, and exactly one of each once the request is answered.
C2_ExactlyOnce ==
    \A r \in 1..Len(brReqs) :
        LET users == UNION {RowsOf(r, w, "user") : w \in Workers}
            agents == UNION {RowsOf(r, w, "agent") : w \in Workers}
        IN /\ Cardinality(users) <= 1
           /\ Cardinality(agents) <= 1
           /\ brReqs[r].state = "answered"
                => (Cardinality(users) = 1 /\ Cardinality(agents) = 1)

\* C3: a turn is persisted atomically: after any execution of
\* invoke_reasoning_graph, one in which a persistence step fails or the
\* task is cancelled between steps included, the store holds both the user
\* utterance and the agent reply of that turn or neither.
C3_AtomicTurn ==
    \A w \in Workers, r \in Reqs :
        brWork[w][r] \in {"respond", "fail", "done", "cancelled"}
        => (RowsOf(r, w, "user") # {} <=> RowsOf(r, w, "agent") # {})

\* C4: every message any component sends on the ephemeral bus (publishes
\* through NATSAgentClient, the voice plugin's reasoning request, the
\* brain's replies) uses a subject that starts with one of the six allowed
\* prefixes.
C4_AllowedSubjects ==
    /\ \A i \in 1..Len(natsBus) : ValidateSubject(natsBus[i].subject)
    /\ \A m \in brainBus : ValidateSubject(m.subject)

\* C5: a NATSAgentClient.publish that fails with InvalidSubject or with
\* NotConnected transmits nothing on the bus, opens no connection
\* (no reconnect) and leaves the client's connection state unchanged.
C5_FailedPublishNoEffect ==
    [][(/\ natsLast'.op = "publish"
        /\ natsLast'.result \in {"InvalidSubject", "NotConnected"})
       => UNCHANGED <<natsBus, natsConnected, natsNc, natsConns,
                      natsPc>>]_vars

\* A connected client that has already transmitted refused foo.bar.baz.
C5_Witness ==
    /\ natsLast.op = "publish"
    /\ natsLast.result = "InvalidSubject"
    /\ natsConnected
    /\ Len(natsBus) > 0

\* C6: whenever the PulsarAgentClient is not connected (never connected,
\* or disconnected after earlier connect and produce calls), produce fails
\* with NotConnected and sends no message, for every topic.
C6_ProduceNotConnected ==
    [][(~pulConnected /\ pulLast'.op = "produce")
       => (pulLast'.result = "NotConnected" /\ pulSent' = pulSent)]_vars

\* C7: connect() is idempotent: once connect() has succeeded on a client
\* (NATSAgentClient or PulsarAgentClient), every later connect() before an
\* explicit disconnect() opens no new underlying connection and leaves the
\* client's connection handle unchanged, in any state reached in between.
C7_ConnectIdempotent ==
    [][/\ (natsEstablished /\ natsLast'.op = "connect")
            => UNCHANGED <<natsNc, natsConns>>
       /\ (pulEstablished /\ pulLast'.op = "connect")
            => UNCHANGED <<pulClient, pulClients>>]_vars

\* C10: in the consume loop every received message is settled exactly
\* once before the next receive: acknowledged if and only if the handler
\* returned without raising and did not return nack (False), negatively
\* acknowledged when the handler returned nack, raised, or the payload
\* could not be decoded; none is both acked and nacked or left unsettled.
C10_SettledExactlyOnce ==
    \A i \in 1..Len(conLog) :
        LET d == conLog[i]
        IN /\ d.acks + d.nacks <= 1
           /\ (i < Len(conLog) \/ conPc \in {"receive", "stopped", "idle"})
                => /\ d.acks + d.nacks = 1
                   /\ d.acks = 1 <=> d.outcome \in {"True", "None"}
                   /\ d.nacks = 1 <=> d.outcome \in
                          {"False", "raise", "JSONDecodeError"}

\* The loop is back at receive after an acked, a nacked-by-return, a
\* raising and an undecodable delivery.
C10_Witness ==
    /\ conPc = "receive"
    /\ Len(conLog) = 3
    /\ conLog[1].outcome = "JSONDecodeError" /\ conLog[1].nacks = 1
    /\ conLog[2].outcome = "raise" /\ conLog[2].nacks = 1
    /\ conLog[3].outcome = "None" /\ conLog[3].acks = 1

\* The message carries a non-empty trace_id and the emitter's name.
HasMetadata(bytes, service_name) ==
    LET envelope == JsonLoads(bytes)
    IN /\ "trace_id" \in DOMAIN envelope
       /\ ~Falsy(envelope["trace_id"])
       /\ "service" \in DOMAIN envelope
       /\ envelope["service"] = service_name

\* C8: every message the core emits across a bus (the envelopes the NATS
\* and Pulsar clients build, for any payload and any trace_id argument,
\* the voice plugin's reasoning request, the brain's replies) carries a
\* trace_id that is present and non-empty and a service field equal to the
\* name of the emitting service.
C8_EnvelopeMetadata ==
    /\ envOut.client # "none" => HasMetadata(envOut.bytes, envOut.service)
    /\ \A m \in brainBus :
          HasMetadata(m.data, IF m.subject = BrainRequestSubject
                              THEN "arc-scarlett-voice"
                              ELSE "arc-sherlock-brain")

\* C9: envelope round trip: decoding the bytes emitted for wrap(p, t, e),
\* for a given trace id t and event type e, gives back trace_id = t,
\* event_type = e and every payload field of p with its value.
C9_RoundTrip ==
    (/\ envOut.received
     /\ ~Falsy(envOut.trace_id)
     /\ ~Falsy(envOut.event_type)) =>
        /\ "trace_id" \in DOMAIN envOut.parsed
        /\ envOut.parsed["trace_id"] = envOut.trace_id
        /\ "event_type" \in DOMAIN envOut.parsed
        /\ envOut.parsed["event_type"] = envOut.event_type
        /\ \A k \in DOMAIN envOut.data :
              /\ k \in DOMAIN envOut.parsed
              /\ envOut.parsed[k] = envOut.data[k]


\* C11: a message whose every delivery is negatively acknowledged is handed
\* to the handler at most 1 + REDELIVER_MAX times (the first delivery and
\* max_redeliver redeliveries), is then forwarded once to the topic
\* <topic>-dlq and not delivered again; a message acknowledged on some
\* delivery is never forwarded to the dead-letter topic.
C11_DeadLetter ==
    \A m \in 1..Len(topicLog) :
       LET settled == conPc \in {"receive", "stopped", "idle"}
                      \/ conLog[Len(conLog)].msg # m
           forwards == {i \in 1..Len(dlqLog) : dlqLog[i].msg = m}
       IN /\ Deliveries(m) <= 1 + redeliverMax
          /\ Cardinality(forwards) <= 1
          /\ \A i \in forwards : dlqLog[i].topic = <<ConsumedTopic, "-dlq">>
          /\ m \in subAcked => forwards = {}
          /\ (/\ settled
              /\ m \notin subAcked
              /\ Deliveries(m) = 1 + redeliverMax) => forwards # {}

\* C12: a single consumer of the shared subscription has its handler
\* invoked for the conversation events of one key in produce order: no
\* invocation for an event follows an invocation for a later event of the
\* same key, whatever was acknowledged, negatively acknowledged or
\* redelivered.
C12_KeyOrder ==
    \A i, j \in 1..Len(conLog) :
       (i < j /\ conLog[i].key = conLog[j].key)
          => conLog[i].msg <= conLog[j].msg

\* C13: no two stored turns share (user_id, agent_id, turn_index) and every
\* stored turn_index is >= 0, also when two sessions of the same user and
\* agent commit the same index.
C13_UniqueTurn ==
    /\ \A i \in 1..Len(turns) : turns[i].turn_index >= 0
    /\ \A i, j \in 1..Len(turns) :
          (i # j) => <<turns[i].user_id, turns[i].agent_id,
                       turns[i].turn_index>>
                     # <<turns[j].user_id, turns[j].agent_id,
                         turns[j].turn_index>>

\* C14: the status of a session starts as active, is always one of active,
\* ended, error, and the only changes it goes through are active -> ended
\* and active -> error (so it changes at most once).
C14_StatusTransitions ==
    \A s \in SessionIds :
       LET h == sessHist[s]
       IN /\ h # <<>> => h[1] = "active"
          /\ \A i \in 1..Len(h) : h[i] \in {"active", "ended", "error"}
          /\ \A i \in 1..(Len(h) - 1) :
                h[i] # h[i + 1]
                   => (h[i] = "active" /\ h[i + 1] \in {"ended", "error"})

\* C15: when the LLM call failed or gave no answer within T_reason, the
\* workflow is not left waiting for it, and the result it returns is the
\* fixed fallback reply, marked reasoning_degraded = true.
C15_LlmFallback ==
    /\ \A w \in Workers, r \in Reqs :
          brNotes[w][r].llm \in {"error", "overdue"}
             => /\ brWork[w][r] # "generate"
                /\ brResp[w][r] = Fallback
    /\ \A m \in brReplies :
          LET data == JsonLoads(m.data)
          IN (/\ brNotes[m.worker][m.req].llm \in {"error", "overdue"}
              /\ "text" \in DOMAIN data)
                => /\ data["text"] = Fallback
                   /\ "reasoning_degraded" \in DOMAIN data
                   /\ data["reasoning_degraded"] = "true"

\* C16: a failed context retrieval does not fail the turn: the worker goes
\* on to generate a reply and never answers the request with an error.
C16_RetrievalNotFatal ==
    /\ \A w \in Workers, r \in Reqs :
          brNotes[w][r].ctx = "failed" => brWork[w][r] # "fail"
    /\ \A m \in brReplies :
          brNotes[m.worker][m.req].ctx = "failed"
             => /\ "error" \notin DOMAIN JsonLoads(m.data)
                /\ "text" \in DOMAIN JsonLoads(m.data)

\* C17: a turn whose save failed is still completed: the reply the worker
\* sends carries the generated text (marked persist_deferred), never an
\* error.
C17_PersistNotFatal ==
    /\ \A w \in Workers, r \in Reqs :
          brNotes[w][r].persist = "failed" => brWork[w][r] # "fail"
    /\ \A m \in brReplies :
          LET data == JsonLoads(m.data)
          IN brNotes[m.worker][m.req].persist = "failed"
                => /\ "error" \notin DOMAIN data
                   /\ "text" \in DOMAIN data
                   /\ data["text"] = brResp[m.worker][m.req]
                   /\ "persist_deferred" \in DOMAIN data

\* C18: however the reasoning request ends, chat() returns a stream that
\* yields exactly one chunk and then only signals its end; the chunk is the
\* brain's text when the reply succeeded and the fixed apology otherwise.
C18_ChatAlwaysAnswers ==
    \A i \in 1..Len(chatTurns) :
       LET t == chatTurns[i]
       IN t.outcome # "pending"
            => /\ t.response # None
               /\ t.response = IF t.outcome = "text" THEN LlmAnswer
                               ELSE Fallback
               /\ Len(t.chunks) <= 1
               /\ (Len(t.chunks) + t.stops >= 1) => t.chunks = <<t.response>>

C18_Witness ==
    /\ Len(chatTurns) = 2
    /\ chatTurns[1].outcome = "error"
    /\ chatTurns[1].chunks = <<Fallback>>
    /\ chatTurns[1].stops = 2
    /\ chatTurns[2].outcome = "text"
    /\ chatTurns[2].chunks = <<LlmAnswer>>
    /\ chatTurns[2].stops = 1

\* C19: for an empty final transcript no reasoning request is sent to the
\* brain and no reply is handed on to be spoken.
C19_EmptyTranscript ==
    \A i \in 1..Len(chatTurns) :
       chatTurns[i].text = ""
          => /\ ~chatTurns[i].sent
             /\ chatTurns[i].chunks = <<>>

RECURSIVE Concat(_)
\* The chunks joined in the order they were yielded.
Concat(chunks) ==
    IF chunks = <<>> THEN <<>>
    ELSE Head(chunks) \o Concat(Tail(chunks))

CeilDiv(n, d) == (n + d - 1) \div d

C21_ProducerCache ==
    /\ Len(pulProducerOpen) = Cardinality(DOMAIN pulProducers)
    /\ \A t \in DOMAIN pulProducers : pulProducers[t] \in 1..Len(pulProducerOpen)
    /\ ~(pulLast.op = "produce" /\ pulLast.result = "AlreadyClosed")

\* C22: for any sequence of messages delivered to a subscription, a message
\* that is not valid JSON or whose handler raises is logged and dropped
\* without propagating the failure; the handler is invoked at most once per
\* delivered message, and later messages are still delivered to it (a
\* message that parses reaches the handler whatever happened before it).
C22_HandlerFailuresDropped ==
    \A i \in 1..Len(nsubLog) :
        LET d == nsubLog[i]
        IN /\ d.outcome # "propagated"
           /\ d.calls <= 1
           /\ d.msg.form = "object" => (d.calls = 1 /\ d.data = JsonLoads(d.msg.body))
           /\ d.msg.form # "object" => (d.calls = 0 /\ d.outcome = "dropped")
           /\ d.outcome = "dropped" => (d.logged /\ d.error # None)
           /\ d.outcome = "done" => (~d.logged /\ d.error = None)

\* A garbage message and a message whose callback raised were dropped, and
\* the message after them reached the callback, which returned.
C22_Witness ==
    /\ Len(nsubLog) = 3
    /\ nsubLog[1].msg.form = "garbage" /\ nsubLog[1].outcome = "dropped"
    /\ nsubLog[2].error = "CallbackError" /\ nsubLog[2].outcome = "dropped"
    /\ nsubLog[3].calls = 1 /\ nsubLog[3].outcome = "done"

\* C23: GET /health of every service answers 200 in every state of its
\* components; the body's status is healthy exactly when all reported
\* components are up and degraded otherwise; a failed dependency never
\* turns the response into a non-200 status.
C23_HealthAlways200 ==
    svcLast.endpoint = "health" =>
        /\ svcLast.code = 200
        /\ svcLast.status \in {"healthy", "degraded"}
        /\ svcLast.status = "healthy" <=>
              \A c \in DOMAIN svcLast.reported : svcLast.reported[c]

\* C24: a failure inside telemetry (metric recording, span creation,
\* telemetry not initialised) never changes the outcome of a request:
\* POST /chat and POST /tts answer what they answer with working telemetry.
C24_TelemetryNeverFails ==
    /\ svcLast.endpoint = "chat" =>
          LET good == ChatEndpoint("ok", svcLast.ready, svcLast.work)
          IN svcLast.code = good.code /\ svcLast.body = good.body
    /\ svcLast.endpoint = "tts" =>
          LET good == TtsEndpoint("ok", svcLast.ready, svcLast.work)
          IN svcLast.code = good.code /\ svcLast.body = good.body

\* C25: a turn whose user utterance is empty or whitespace-only is never
\* stored: constructing a Conversation with such a user_input is rejected
\* with a ValueError, so no pending and no stored row carries one.
C25_EmptyUtteranceRejected ==
    /\ \A i \in 1..Len(turns) : ~Falsy(Strip(turns[i].user_input))
    /\ \A s \in DbSessions :
          turnPending[s] # <<>> => ~Falsy(Strip(turnPending[s][1].user_input))

\* The replies worker w sent for request r.
RepliesOf(w, r) == {m \in brReplies : m.req = r /\ m.worker = w}

\* invoke_reasoning_graph was reached for request r and returned to worker w.
ReasoningSucceeded(w, r) ==
    /\ ~PayloadRaises(brReqs[r])
    /\ ~Falsy(brReqs[r].user_id) /\ ~Falsy(brReqs[r].text)
    /\ brNotes[w][r].ctx # "failed"
    /\ brNotes[w][r].persist # "failed"

\* C26: for every message delivered to the brain's request handler (well
\* formed, malformed JSON, missing user_id or text) and whatever the outcome
\* of reasoning and persistence, the handler sends exactly one reply: with
\* text and latency_ms if and only if reasoning succeeded, otherwise with an
\* error field; none before it ends, never zero and never two.
C26_ExactlyOneReply ==
    \A w \in Workers, r \in 1..Len(brReqs) :
        /\ brWork[w][r] # "done" => RepliesOf(w, r) = {}
        /\ brWork[w][r] = "done" =>
              /\ Cardinality(RepliesOf(w, r)) = 1
              /\ \A m \in RepliesOf(w, r) :
                    LET d == JsonLoads(m.data)
                    IN IF ReasoningSucceeded(w, r)
                       THEN /\ {"text", "latency_ms"} \subseteq DOMAIN d
                            /\ "error" \notin DOMAIN d
                       ELSE /\ "error" \in DOMAIN d
                            /\ "text" \notin DOMAIN d

\* The handler answered a payload that is not JSON with one error reply.
C26_Witness ==
    /\ Len(brReqs) = 1
    /\ brReqs[1].form = "garbage"
    /\ brWork[HandlerWorker][1] = "done"
    /\ \E m \in RepliesOf(HandlerWorker, 1) : "error" \in DOMAIN JsonLoads(m.data)

\* C27: whenever a turn is persisted, the agent reply stored for it is the
\* reply the requester received: a request the requester gave up on
\* (timeout, the apology is spoken) or that failed leaves no stored reply,
\* and a request answered with an error leaves no stored record of the turn.
C27_StoredReplyDelivered ==
    \A i \in 1..Len(brainRows) :
        LET row == brainRows[i]
            r == row.req[1]
            w == row.req[2]
        IN /\ (row.role = "agent" /\ brReqs[r].state = "answered")
                 => row.text = brReqs[r].spoken
           /\ (row.role = "agent" /\ brReqs[r].state = "failed")
                 => FALSE
           /\ \A m \in RepliesOf(w, r) : "error" \notin DOMAIN JsonLoads(m.data)

\* C28: session cleanup takes effect once: when the participant-disconnected
\* event and the shutdown callback both run cleanup for a session, in any
\* interleaving at their await points, no task attempts an operation on a
\* connection handle the other has released (set to None), and once both
\* have ended the assistant is closed and the connection closed and released.
C28_CleanupOnce ==
    \A s \in Rooms :
        /\ \A t \in CleanupTasks : clErr[s][t] # "AttributeError"
        /\ (\A t \in CleanupTasks : clPc[s][t] \in {"done", "failed"})
              => (clAssistant[s] = "closed" /\ clConn[s] = "closed" /\ ~clNc[s])

\* C29: after NATSAgentClient.disconnect() returns, the underlying
\* connection is closed and the client stays not connected: no library
\* callback makes it connected again and publish fails with NotConnected
\* until connect() is called, for every interleaving of disconnect() with
\* the library's disconnected and reconnected callbacks.
C29_StaysDisconnected ==
    [][(natsPc = "idle" /\ natsLast.op = "disconnect")
         => /\ ~natsConnected
            /\ natsNc # 0 => natsConns[natsNc] = "closed"
            /\ natsLast'.op # "connect" => ~natsConnected'
            /\ natsLast'.op = "publish" => natsLast'.result = "NotConnected"
      ]_vars

\* C30: closing one websocket voice session releases only that session's
\* consumer: with two or more live sessions in the process, after one of
\* them ends the others can still send input messages and receive
\* responses through the shared Pulsar client.
C30_CloseReleasesOwnConsumer ==
    \A s \in WsSessions :
        wsSess[s] = "live" =>
            /\ wsClient = "open"
            /\ wsProducer[s] = "open"
            /\ wsConsumer[s] = "open"
            /\ (wsLast.session = s /\ wsLast.op \in {"send", "receive"})
                  => wsLast.result = "ok"
====
